---------------------------- MODULE Spec2Model ----------------------------
(***************************************************************************)
(* A model of taskcluster-lib-artifact-go: the HTTP agent (request.go),    *)
(* the upload preparation (prepare.go), the bounded request body (body.go) *)
(* and the upload / download protocols of the Client (interface.go).       *)
(*                                                                         *)
(* Byte streams are sequences over a two-letter alphabet.  SHA-256 is an   *)
(* ideal (collision free) hash: a digest is a record holding its preimage. *)
(* gzip is a framing <<magic>> \o payload \o <<checksum>>; its decoder     *)
(* rejects a wrong magic when the reader is created and a wrong checksum   *)
(* or a truncated stream while the body is copied.                         *)
(***************************************************************************)
EXTENDS Integers, Sequences, FiniteSets, TLC

(***************************************************************************)
(* Bounds                                                                  *)
(***************************************************************************)
\* longest response body put on the wire by the model's servers
MaxWire == 3
\* longest request body handed to a direct call of the agent
MaxBody == 2
\* largest chunk size and part size handed to SetInternalSizes
MaxSizeArg == 8
\* longest backing reader of a body used on its own
MaxSource == 3
\* most calls of Reset on one body
MaxResets == 2
\* longest input handed to the preparation of an upload
MaxInput == 4
\* most requests the Queue answers createArtifact with
MaxRequests == 2
\* most calls of Write made on one byteCountingWriter
MaxWrites == 4
\* longest slice handed to Write
MaxSlice == 2
\* longest error chain handed to the formatting
MaxChain == 3

Byte == {0, 1}

RECURSIVE SeqsUpTo(_)
SeqsUpTo(n) ==
    IF n = 0 THEN {<<>>}
    ELSE LET prev == SeqsUpTo(n - 1)
         IN  prev \cup {Append(s, b) : s \in {t \in prev : Len(t) = n - 1}, b \in Byte}

Min(a, b) == IF a < b THEN a ELSE b

Prefix(s, n) == SubSeq(s, 1, Min(n, Len(s)))

(***************************************************************************)
(* Hashing and text encodings                                              *)
(***************************************************************************)
\* crypto/sha256: an ideal hash, the digest determines its preimage
Sha256(s) == [sum |-> s]

\* encoding/hex EncodeToString of a 32 byte digest: 64 lowercase hex chars
EncodeToString(d) == [len |-> 64, of |-> d.sum]

\* a header that is not set reads as the empty string
NoText == [len |-> 0, of |-> <<>>]
\* the 7 character text "invalid" used by the corrupted-download test
ShortText == [len |-> 7, of |-> <<>>]

\* textual integers as carried by headers
AbsentNum == [kind |-> "absent", val |-> 0]
JunkNum == [kind |-> "junk", val |-> 0]
NumText(n) == [kind |-> "num", val |-> n]

\* strconv.ParseInt(s, 10, 64)
ParseIntMut(h) == [ok |-> TRUE, val |-> h.val]
ParseInt(h) == IF h.kind = "num" THEN [ok |-> TRUE, val |-> h.val]
               ELSE [ok |-> FALSE, val |-> 0]

(***************************************************************************)
(* gzip                                                                    *)
(***************************************************************************)
GzMagic == 1

RECURSIVE SumBytes(_)
SumBytes(s) == IF s = <<>> THEN 0 ELSE Head(s) + SumBytes(Tail(s))

Crc(s) == SumBytes(s) % 2

\* compress/gzip Writer, closed: header, payload, trailer.  The header
\* carries the fixed ModTime so the output is a function of the payload.
GzipEncode(s) == <<GzMagic>> \o s \o <<Crc(s)>>

\* gzip.NewReader: reads and checks the header
GzHeaderOK(w) == Len(w) >= 1 /\ w[1] = GzMagic

\* the payload a gzip reader delivers before it meets the trailer
GzPayload(w) == IF Len(w) >= 2 THEN SubSeq(w, 2, Len(w) - 1) ELSE <<>>

\* the trailer check made when the payload is exhausted
GzTrailerOK(w) == Len(w) >= 2 /\ w[Len(w)] = Crc(GzPayload(w))

(***************************************************************************)
(* Errors: a chain of messages, outermost first; nil is the empty chain    *)
(***************************************************************************)
Nil == <<>>

newErrorMut(super, msg) == super
newError(super, msg) == <<msg>> \o super

ErrHTTPS == newError(Nil, "only resources served over https are allowed")
ErrCorrupt == newError(Nil, "corrupt resource")
ErrExpectedRedirect == newError(Nil, "expected redirect")
ErrUnexpectedRedirect == newError(Nil, "unexpected redirect")
ErrBadRedirect == newError(Nil, "malformed redirect")
ErrBadOutputWriter == newError(Nil, "output writer is not empty")
ErrErr == newError(Nil, "artifact is an error")

\* an error produced outside the library (net/http, io, strconv, gzip)
Foreign(what) == <<what>>


(***************************************************************************)
(* State                                                                   *)
(***************************************************************************)
VARIABLES
    \* the Agent: one activation of client.run (request.go)
    rpc,        \* position in run: "idle", "do", "copy", "verify", "ret"
    rarg,       \* the arguments of the call
    count,      \* reqBodyCounter.count
    resp,       \* the *http.Response that client.Do returned, if any
    cs,         \* the callSummary being filled in and returned
    retryable,  \* the returned retryable flag
    err,        \* the returned error
    site,       \* which return statement of run was taken
    closed,     \* the deferred resp.Body.Close(): "none", "ok", "failed"
    enc,        \* the Content-Encoding header of the response
    wire,       \* the response body as sent on the wire
    meas,       \* transferBytes, contentBytes, sTransferHash, sContentHash
    amz,        \* the x-amz-meta-* headers of the response
    \* the streams handed to the Agent
    sink,       \* the caller's outputWriter
    membuf,     \* the bytes.Buffer of Upload (outputBuf) and download (redirectBuf)
    calls,      \* every call of run made so far: its URL, verify and sink
    \* the Client and the operation in progress (interface.go)
    pc,         \* position of the top-level operation
    result,     \* the error the top-level operation returned
    allowInsecure,  \* Client.AllowInsecure
    sinkCap,    \* what the outputWriter of a download lets the Client observe
    redir,      \* download: what the redirect-capture request returned
    \* the preparation of an upload (prepare.go)
    ppc,        \* position: "idle", "single", "multi", "hash", "ret", "panic"
    input,      \* the bytes of the caller's input stream
    staging,    \* the bytes of the output (staging) stream
    gz,         \* the gzip argument
    chunkSize,  \* the chunkSize argument
    chunksInPart,   \* the chunksInPart argument
    u,          \* the upload value returned
    perr,       \* the error returned
    hf,         \* the locals of hashFileParts
    inputOps,   \* history: the seeks and reads made on the input stream
    \* Client.Upload (interface.go)
    multipart,  \* the multipart argument; in a direct call, multiPartUpload is called
    requests,   \* what CreateArtifact answered: the number of requests, their headers
    etags,      \* the etags slice
    idx,        \* the loop variable i over the requests, counted from 1
    puts,       \* history: the runs of the agent that returned, in order
    queueCalls, \* history: the calls made to the Queue
    out0,       \* what the output stream held when Upload was called, and its seeks
    \* a body (body.go) used on its own
    bd,         \* the backing reader, the fields of the body, and what was read
    \* the sizes of a Client (interface.go 37-92)
    sizes,      \* the fields chunkSize and multipartPartChunkCount
    setCall,    \* history: the last call of SetInternalSizes
    \* a byteCountingWriter shared by concurrent writers
    writer,     \* its count field, each goroutine's place in Write, and history
    \* singlePartUpload called twice, at different times (prepare.go 136-197)
    runs,       \* history: the arguments of each call, what it wrote and returned
    \* the formatting of an error (error.go 126-170)
    report      \* the error handed to magic and the lines it wrote

agentVars == <<rpc, rarg, count, resp, cs, retryable, err, site, closed, enc, wire, meas, amz>>
streamVars == <<sink, membuf>>
clientVars == <<pc, result, allowInsecure, sinkCap, redir>>
prepVars == <<ppc, input, staging, gz, chunkSize, chunksInPart, u, perr, hf, inputOps>>
uploadVars == <<multipart, requests, etags, idx, puts, queueCalls, out0>>
bodyVars == <<bd>>
sizeVars == <<sizes, setCall>>
counterVars == <<writer>>
gzipVars == <<runs>>
errVars == <<report>>

(***************************************************************************)
(* The servers                                                             *)
(***************************************************************************)
StatusCodes == {200, 302, 404, 500}

\* resp.Status: the code and its reason phrase
StatusText(code) ==
    CASE code = 200 -> "200 OK"
      [] code = 302 -> "302 Found"
      [] code = 404 -> "404 Not Found"
      [] code = 500 -> "500 Internal Server Error"
      [] OTHER -> "unknown"

ETags == {"", "etag-a", "etag-b"}
Locations == {"", "https://store/object", "http://store/object", "%zz://store"}
StorageTypes == {"", "blob", "error", "reference", "s3", "azure"}

NoHeader == [set |-> FALSE, etag |-> "", location |-> "", storageType |-> ""]

\* the headers a peer may answer with, as far as the callers of run read them
PeerHeaders(peer) ==
    CASE peer = "store-put" ->
            {[set |-> TRUE, etag |-> e, location |-> "", storageType |-> ""] : e \in ETags}
      [] peer = "queue-get" ->
            {[set |-> TRUE, etag |-> "", location |-> l, storageType |-> t] :
                l \in Locations, t \in StorageTypes}
      [] OTHER ->
            {[set |-> TRUE, etag |-> "", location |-> "", storageType |-> ""]}

\* Content-Encoding values as sent
Encodings == {"", "identity", "gzip", " gzip ", "GZIP", "br"}

\* strings.TrimSpace on the values above
TrimSpace(e) == IF e = " gzip " THEN "gzip" ELSE e

\* bodies answered with an error status
ErrorBodies == {<<>>, <<0>>}

\* the response bodies a peer may send: every body up to MaxWire bytes to
\* a direct call of run; a plain body, and a gzip stream and a broken one
\* from the object store; a short document from the Queue
Wires(peer) ==
    CASE peer = "any" -> SeqsUpTo(MaxWire)
      [] peer = "store-get" -> {<<>>, <<0>>, GzipEncode(<<0>>), <<GzMagic, 0, 1>>}
      [] OTHER -> {<<>>, <<0>>}

\* the Content-Encoding values a peer may send
EncodingsOf(peer) ==
    CASE peer = "any" -> Encodings
      [] peer = "store-get" -> {"", "gzip", "br"}
      [] OTHER -> {"", "br"}

\* how many bytes of the request body the transport has read when Do
\* returns: any number in a direct call of run; none or all of them in an
\* upload
BodyReads(a) ==
    IF a.peer = "any" THEN 0..Len(a.body) ELSE {0, Len(a.body)}

(***************************************************************************)
(* client.run                                                              *)
(***************************************************************************)
NoMeas == [transferBytes |-> 0, contentBytes |-> 0,
           sTransferHash |-> NoText, sContentHash |-> NoText]

NoAmz == [cLen |-> AbsentNum, tLen |-> AbsentNum, cSha |-> NoText, tSha |-> NoText]

EmptySummary ==
    [StatusCode |-> 0, Status |-> "", RequestLength |-> 0, RequestSha256 |-> NoText,
     RequestHeaderSet |-> FALSE, ResponseHeader |-> NoHeader,
     ResponseLength |-> 0, ResponseSha256 |-> NoText, Verified |-> FALSE]

NoResponse == [received |-> FALSE, status |-> 0, header |-> NoHeader]

NoArg == [url |-> "", urlOK |-> TRUE, cl |-> AbsentNum, hasBody |-> FALSE, body |-> <<>>,
          sinkTo |-> "nil", verify |-> FALSE, peer |-> "any"]

\* the entry of run: cs.URL and cs.Method are set, nothing else
Call(a) ==
    /\ rpc' = "do"
    /\ rarg' = a
    /\ calls' = Append(calls, [url |-> a.url, verify |-> a.verify, sinkTo |-> a.sinkTo])
    /\ count' = 0
    /\ resp' = NoResponse
    /\ cs' = EmptySummary
    /\ retryable' = FALSE
    /\ err' = Nil
    /\ site' = "running"
    /\ closed' = "none"
    /\ enc' = ""
    /\ wire' = <<>>
    /\ meas' = NoMeas
    /\ amz' = NoAmz

\* a return statement of run, followed by the deferred close of the body
\* when a response was received: a close error replaces a nil error only
DeferredClose(e, closeErr) == IF closeErr /\ e = Nil THEN Foreign("close") ELSE e

Return(c, r, e, s, closeErr) ==
    /\ rpc' = "ret"
    /\ cs' = c
    /\ retryable' = r
    /\ err' = DeferredClose(e, closeErr)
    /\ site' = s
    /\ closed' = IF closeErr THEN "failed" ELSE "ok"

\* a return statement of run taken before any response exists
ReturnEarly(c, r, e, s) ==
    /\ rpc' = "ret"
    /\ cs' = c
    /\ retryable' = r
    /\ err' = e
    /\ site' = s
    /\ closed' = "none"

\* what the output writer receives
WriteSink(bytes) ==
    CASE rarg.sinkTo = "out" -> sink' = sink \o bytes /\ membuf' = membuf
      [] rarg.sinkTo = "buf" -> membuf' = membuf \o bytes /\ sink' = sink
      [] OTHER -> UNCHANGED <<sink, membuf>>

\* request.go 243: the Content-Length check made once the response is in
LengthMismatchMut(hadCL, contentLength, n) == FALSE
LengthMismatch(hadCL, contentLength, n) == hadCL /\ contentLength # n

\* request.go 248, 257: the status classes that end the run
IsServerError(status) == status >= 500
IsClientErrorMut(status) == status >= 500
IsClientError(status) == status >= 400

\* request.go 157-263: build the request, send it, classify the response
AgentDo ==
    /\ rpc = "do"
    /\ UNCHANGED <<rarg, enc, meas, amz, sink, membuf, calls, clientVars, prepVars, uploadVars, bodyVars, sizeVars, counterVars, gzipVars, errVars>>
    /\ LET hadCL == rarg.cl.kind # "absent"
           parsed == ParseInt(rarg.cl)
           cs1 == [cs EXCEPT !.RequestHeaderSet = TRUE,
                             !.RequestLength = count,
                             !.RequestSha256 = EncodeToString(Sha256(<<>>))]
       IN  \/ /\ ~rarg.urlOK
              /\ UNCHANGED <<count, wire, resp>>
              /\ ReturnEarly(cs, FALSE,
                    newError(Foreign("http.NewRequest"), "making request"), "newrequest")
           \/ /\ rarg.urlOK /\ hadCL /\ ~parsed.ok
              /\ UNCHANGED <<count, wire, resp>>
              /\ ReturnEarly(cs, FALSE,
                    newError(Foreign("strconv.ParseInt"), "parsing content-length"),
                    "content-length")
           \/ /\ rarg.urlOK /\ (hadCL => parsed.ok)
              /\ \E n \in BodyReads(rarg) :
                    /\ count' = n
                    /\ \/ /\ wire' = wire
                          /\ resp' = resp
                          /\ ReturnEarly(cs1, FALSE,
                                newError(Foreign("url.Error"), "running request"),
                                "transport")
                       \/ \E st \in StatusCodes, h \in PeerHeaders(rarg.peer),
                             closeErr \in BOOLEAN :
                            LET cs2 == [cs1 EXCEPT !.Status = StatusText(st),
                                                   !.StatusCode = st,
                                                   !.ResponseHeader = h]
                            IN  /\ resp' = [received |-> TRUE, status |-> st, header |-> h]
                                /\ IF LengthMismatch(hadCL, parsed.val, n)
                                   THEN /\ wire' = wire
                                        /\ Return(cs2, TRUE,
                                               newError(Nil, "read bytes differ from content-length"),
                                               "length-mismatch", closeErr)
                                   ELSE IF IsServerError(st)
                                   THEN \E b \in ErrorBodies, readErr \in BOOLEAN :
                                        /\ wire' = b
                                        /\ Return(cs2, TRUE,
                                               newError(IF readErr THEN Foreign("io.ReadAll") ELSE Nil,
                                                        "received 5xx (retryable)"),
                                               "5xx", closeErr)
                                   ELSE IF IsClientError(st)
                                   THEN \E b \in ErrorBodies, readErr \in BOOLEAN :
                                        /\ wire' = b
                                        /\ Return(cs2, FALSE,
                                               newError(IF readErr THEN Foreign("io.ReadAll") ELSE Nil,
                                                        "received 4xx (non-retryable)"),
                                               "4xx", closeErr)
                                   ELSE /\ ~closeErr
                                        /\ wire' = wire
                                        /\ rpc' = "copy"
                                        /\ cs' = cs2
                                        /\ UNCHANGED <<retryable, err, site, closed>>

\* how the copy loop may fail: the transport breaks after `at` bytes have
\* arrived, or the output writer fails after `at` bytes were written
Failures(w) ==
    {[kind |-> "none", at |-> 0]}
        \cup {[kind |-> "read", at |-> k] : k \in 0..Len(w)}
        \cup {[kind |-> "write", at |-> k] : k \in 0..(Len(w) - 1)}

\* request.go 286-300: the encodings run accepts, after trimming
SupportedEncoding(e) == TrimSpace(e) \in {"", "identity", "gzip"}

IsGzip(e) == TrimSpace(e) = "gzip"

\* request.go 278: the bytes the transfer hash and the transfer counter
\* see, those read from the response body before any decoding
TransferSeenMut(w, decoded) == decoded
TransferSeen(w, decoded) == w

\* request.go 267-328: decode and copy the response body
AgentCopy ==
    /\ rpc = "copy"
    /\ UNCHANGED <<rarg, count, resp, amz, calls, clientVars, prepVars, uploadVars, bodyVars, sizeVars, counterVars, gzipVars, errVars>>
    /\ \E e \in EncodingsOf(rarg.peer), w \in Wires(rarg.peer), closeErr \in BOOLEAN :
        /\ enc' = e
        /\ wire' = w
        /\ IF ~SupportedEncoding(e)
           THEN /\ UNCHANGED <<sink, membuf, meas>>
                /\ Return(cs, FALSE, newError(Nil, "unexpected content-encoding"),
                          "encoding", closeErr)
           ELSE \E f \in Failures(w) :
                LET arrived == IF f.kind = "read" THEN Prefix(w, f.at) ELSE w
                    delivered == IF IsGzip(e) THEN GzPayload(arrived) ELSE arrived
                    written == IF f.kind = "write" THEN Prefix(delivered, f.at) ELSE delivered
                    complete == /\ f.kind = "none"
                                /\ IsGzip(e) => GzTrailerOK(arrived)
                    seen == TransferSeen(w, delivered)
                    cs3 == [cs EXCEPT !.ResponseLength = Len(seen),
                                      !.ResponseSha256 = EncodeToString(Sha256(seen))]
                IN  /\ f.kind = "write" => (rarg.sinkTo # "nil" /\ f.at < Len(delivered))
                    /\ IF IsGzip(e) /\ ~GzHeaderOK(arrived)
                       THEN /\ UNCHANGED <<sink, membuf, meas>>
                            /\ Return(cs, FALSE,
                                   newError(Foreign("gzip: invalid header"), "creating gzip reader"),
                                   "gzip-header", closeErr)
                       ELSE /\ WriteSink(written)
                            /\ IF ~complete
                               THEN /\ meas' = meas
                                    /\ Return(cs, TRUE,
                                           newError(Foreign("io.CopyBuffer"), "writing request to output"),
                                           "copy", closeErr)
                               ELSE /\ meas' = [transferBytes |-> Len(seen),
                                                contentBytes |-> Len(delivered),
                                                sTransferHash |-> EncodeToString(Sha256(seen)),
                                                sContentHash |-> EncodeToString(Sha256(delivered))]
                                    /\ IF rarg.verify
                                       THEN /\ ~closeErr
                                            /\ rpc' = "verify"
                                            /\ cs' = cs3
                                            /\ UNCHANGED <<retryable, err, site, closed>>
                                       ELSE Return(cs3, FALSE, Nil, "ok", closeErr)

\* the x-amz-meta-*-length values a store may send
LenHeaders(peer) ==
    IF peer = "any" THEN {AbsentNum, JunkNum} \cup {NumText(n) : n \in 0..MaxWire}
    ELSE {AbsentNum, JunkNum, NumText(1), NumText(3)}

\* the x-amz-meta-*-sha256 values a store may send for a given transfer
ShaHeaders(m) ==
    {NoText, ShortText, m.sContentHash, m.sTransferHash, EncodeToString(Sha256(<<0, 0>>))}

\* request.go 349-375: the expected sizes; ok is false when a header that
\* is present does not parse
ExpectedSizes(h) ==
    LET c == ParseInt(h.cLen)
        t == ParseInt(h.tLen)
        expectedSize == IF h.cLen.kind = "absent" THEN 0 ELSE c.val
    IN  [ok |-> (h.cLen.kind # "absent" => c.ok) /\ (h.tLen.kind # "absent" => t.ok),
         expectedSize |-> expectedSize,
         expectedTransferSize |-> IF h.tLen.kind = "absent" THEN expectedSize ELSE t.val]

\* request.go 340-415: the valid flag after all the comparisons
Valid(h, m) ==
    LET x == ExpectedSizes(h)
        expectedSha256 == h.cSha
        expectedTransferSha256 == IF h.tSha = NoText THEN expectedSha256 ELSE h.tSha
    IN  /\ h.cLen.kind # "absent"
        /\ expectedSha256 # NoText
        /\ expectedSha256.len = 64
        /\ x.expectedTransferSize = m.transferBytes
        /\ expectedTransferSha256 = m.sTransferHash
        /\ x.expectedSize = m.contentBytes
        /\ expectedSha256 = m.sContentHash

\* request.go 333-447: check the transfer against the x-amz-meta-* headers
AgentVerify ==
    /\ rpc = "verify"
    /\ UNCHANGED <<rarg, count, resp, enc, wire, meas, sink, membuf, calls, clientVars,
                   prepVars, uploadVars, bodyVars, sizeVars, counterVars, gzipVars, errVars>>
    /\ \E cl \in LenHeaders(rarg.peer), tl \in LenHeaders(rarg.peer),
          csha \in ShaHeaders(meas), tsha \in ShaHeaders(meas), closeErr \in BOOLEAN :
        LET h == [cLen |-> cl, tLen |-> tl, cSha |-> csha, tSha |-> tsha]
        IN  /\ amz' = h
            /\ IF ~ExpectedSizes(h).ok
               THEN Return(cs, TRUE,
                        newError(Foreign("strconv.ParseInt"), "parsing X-Amz-Meta length header"),
                        "verify-parse", closeErr)
               ELSE IF ~Valid(h, meas)
               THEN Return(cs, TRUE, ErrCorrupt, "corrupt", closeErr)
               ELSE Return(cs, FALSE, Nil, "ok", closeErr)

(***************************************************************************)
(* A direct call of the Agent                                              *)
(***************************************************************************)
NoCap == [stat |-> "absent", seek |-> "absent", initial |-> <<>>]

NoRedirect == [status |-> 0, location |-> "", storageType |-> "", body |-> <<>>, err |-> Nil]

RunArgs ==
    {[url |-> "direct", urlOK |-> ok, cl |-> c, hasBody |-> hb, body |-> b, sinkTo |-> s,
      verify |-> FALSE, peer |-> "any"] :
        ok \in BOOLEAN, c \in {AbsentNum, JunkNum} \cup {NumText(n) : n \in 0..MaxBody},
        hb \in BOOLEAN, b \in SeqsUpTo(MaxBody), s \in {"nil", "out"}}
    \cup
    {[url |-> "direct", urlOK |-> TRUE, cl |-> AbsentNum, hasBody |-> FALSE, body |-> <<>>,
      sinkTo |-> s, verify |-> TRUE, peer |-> "any"] : s \in {"nil", "out"}}

RunCall ==
    /\ pc = "idle"
    /\ pc' = "run"
    /\ \E a \in RunArgs :
        /\ a.hasBody \/ a.body = <<>>
        /\ a.urlOK \/ (a.cl = AbsentNum /\ ~a.hasBody)
        /\ Call(a)
    /\ UNCHANGED <<sink, membuf, result, allowInsecure, sinkCap, redir, prepVars, uploadVars, bodyVars, sizeVars, counterVars, gzipVars, errVars>>

(***************************************************************************)
(* Upload preparation (prepare.go)                                         *)
(*                                                                         *)
(* Sizes are scaled: the 5 MiB minimum of a part is MinPartSize bytes and  *)
(* the 1 KiB minimum of a chunk is MinChunkSize bytes of the model.        *)
(***************************************************************************)
MinPartSize == 4
MinChunkSize == 2

\* the digest a zero-valued part holds
NilDigest == [sum |-> <<-1>>]

ZeroPart == [Sha256 |-> NilDigest, Size |-> 0, Start |-> 0]

\* upload{}: the zero value; Parts is a nil slice
NoUpload ==
    [Sha256 |-> NilDigest, Size |-> 0, TransferSha256 |-> NilDigest, TransferSize |-> 0,
     ContentEncoding |-> "", PartsNil |-> TRUE, Parts |-> <<>>]

NoHash ==
    [size |-> 0, totalParts |-> 0, parts |-> <<>>, currentPart |-> 0,
     currentPartChunk |-> 0, currentPartSize |-> 0, pos |-> 0, partFrom |-> 0,
     short |-> FALSE]

\* prepare.go 145-155, 183: the bytes singlePartUpload writes to the output
TransferBytes(in, gzip) == IF gzip THEN GzipEncode(in) ELSE in

\* prepare.go 173-179, 190-196: the upload singlePartUpload returns
SinglePartPlanMut(in, gzip) ==
    [Sha256 |-> Sha256(in),
     Size |-> Len(in),
     TransferSha256 |-> Sha256(in),
     TransferSize |-> Len(in),
     ContentEncoding |-> IF gzip THEN "gzip" ELSE "identity",
     PartsNil |-> TRUE,
     Parts |-> <<>>]
SinglePartPlan(in, gzip) ==
    [Sha256 |-> Sha256(in),
     Size |-> Len(in),
     TransferSha256 |-> Sha256(TransferBytes(in, gzip)),
     TransferSize |-> Len(TransferBytes(in, gzip)),
     ContentEncoding |-> IF gzip THEN "gzip" ELSE "identity",
     PartsNil |-> TRUE,
     Parts |-> <<>>]

\* how singlePartUpload may fail: the seek of the input, a read of the
\* input after `at` bytes were written, a write after `at` bytes
CopyFailures(t) ==
    {[kind |-> "none", at |-> 0], [kind |-> "seek", at |-> 0]}
        \cup {[kind |-> k, at |-> n] : k \in {"read", "write"}, n \in 0..(Len(t) - 1)}

\* prepare.go 137, 157, 185: what singlePartUpload does to the input: a seek
\* to its start and, when that succeeds, the reads of the copy
InputOpsOfCopy(f) == IF f.kind = "seek" THEN <<"seek">> ELSE <<"seek", "read">>

\* math.Ceil(float64(size) / float64(partSize))
CeilDiv(size, partSize) == (size + partSize - 1) \div partSize

\* the return of a preparation
PrepReturn(plan, e) ==
    /\ ppc' = "ret"
    /\ u' = plan
    /\ perr' = e

\* prepare.go 136-197: singlePartUpload
SinglePartUpload ==
    /\ ppc = "single"
    /\ UNCHANGED <<agentVars, streamVars, calls, clientVars, uploadVars, bodyVars, sizeVars, counterVars, gzipVars, errVars>>
    /\ UNCHANGED <<input, gz, chunkSize, chunksInPart, hf>>
    /\ \E f \in CopyFailures(TransferBytes(input, gz)) :
        /\ inputOps' = inputOps \o InputOpsOfCopy(f)
        /\ IF f.kind = "none"
           THEN /\ staging' = staging \o TransferBytes(input, gz)
                /\ PrepReturn(SinglePartPlan(input, gz), Nil)
           ELSE /\ staging' = staging \o Prefix(TransferBytes(input, gz), f.at)
                /\ PrepReturn(NoUpload, Foreign(f.kind))

\* prepare.go 59-84: the locals of hashFileParts before its loop
HashInit(size, cSize, cInPart) ==
    [size |-> size,
     totalParts |-> CeilDiv(size, cSize * cInPart),
     parts |-> [i \in 1..CeilDiv(size, cSize * cInPart) |-> ZeroPart],
     currentPart |-> 0,
     currentPartChunk |-> 0,
     currentPartSize |-> 0,
     pos |-> 0,
     partFrom |-> 0,
     short |-> FALSE]

\* prepare.go 212: the part size multiPartUpload refuses
PartTooSmall(partSize) == partSize < MinPartSize

\* the output may have been changed by someone else between the two passes
Tampered(st) == IF st = <<>> THEN {st} ELSE {st, [st EXCEPT ![1] = 1 - st[1]]}

\* prepare.go 203-229: multiPartUpload up to the loop of hashFileParts
MultiPartUpload ==
    /\ ppc = "multi"
    /\ UNCHANGED <<agentVars, streamVars, calls, clientVars, uploadVars, bodyVars, sizeVars, counterVars, gzipVars, errVars>>
    /\ UNCHANGED <<input, gz, chunkSize, chunksInPart>>
    /\ \E f \in CopyFailures(TransferBytes(input, gz)), seekErr \in BOOLEAN :
            IF f.kind = "seek"
            THEN /\ PrepReturn(NoUpload, Foreign(f.kind))
                 /\ inputOps' = inputOps \o <<"seek">>
                 /\ UNCHANGED <<staging, hf>>
            ELSE IF PartTooSmall(chunkSize * chunksInPart)
            THEN /\ PrepReturn(NoUpload, Foreign("partsize must be at least 5 MB"))
                 /\ inputOps' = inputOps \o <<"seek">>
                 /\ UNCHANGED <<staging, hf>>
            ELSE IF f.kind # "none"
            THEN /\ staging' = staging \o Prefix(TransferBytes(input, gz), f.at)
                 /\ inputOps' = inputOps \o <<"seek">> \o InputOpsOfCopy(f)
                 /\ hf' = hf
                 /\ PrepReturn(NoUpload, Foreign(f.kind))
            ELSE IF seekErr
            THEN /\ staging' = staging \o TransferBytes(input, gz)
                 /\ inputOps' = inputOps \o <<"seek">> \o InputOpsOfCopy(f)
                 /\ hf' = hf
                 /\ PrepReturn(NoUpload, Foreign("seek"))
            ELSE /\ staging' \in Tampered(staging \o TransferBytes(input, gz))
                 /\ inputOps' = inputOps \o <<"seek">> \o InputOpsOfCopy(f)
                 /\ hf' = HashInit(SinglePartPlan(input, gz).TransferSize,
                                   chunkSize, chunksInPart)
                 /\ u' = SinglePartPlan(input, gz)
                 /\ ppc' = "hash"
                 /\ perr' = perr

\* prepare.go 235: the hash of the second pass is not the transfer hash of
\* the first
HashChangedMut(hash, digest) == FALSE
HashChanged(hash, digest) == hash # digest

\* prepare.go 91, 110: the part hashFileParts records
PartStart(currentPart, partSize, from) == currentPart * partSize

RecordedPart(h, upTo, partSize) ==
    [Sha256 |-> Sha256(SubSeq(staging, h.partFrom + 1, upTo)),
     Size |-> h.currentPartSize,
     Start |-> PartStart(h.currentPart, partSize, h.partFrom)]

\* prepare.go 108: the read that closes a part
LastChunkOfPart(currentPartChunk, cInPart) == currentPartChunk = cInPart - 1

\* prepare.go 86-120 and 229-240: one iteration of the loop of
\* hashFileParts; at the end of the stream, its return to multiPartUpload
HashFileRead ==
    /\ ppc = "hash"
    /\ UNCHANGED <<agentVars, streamVars, calls, clientVars, uploadVars, bodyVars, sizeVars, counterVars, gzipVars, errVars>>
    /\ UNCHANGED <<input, staging, gz, chunkSize, chunksInPart, inputOps>>
    /\ LET partSize == chunkSize * chunksInPart
           left == Len(staging) - hf.pos
       IN  IF left = 0
           THEN \* nBytes == 0: the last, partly filled part, then the return
                LET inRange == hf.currentPart < hf.totalParts
                    parts == IF hf.currentPartSize > 0 /\ inRange
                             THEN [hf.parts EXCEPT ![hf.currentPart + 1] =
                                        RecordedPart(hf, hf.pos, partSize)]
                             ELSE hf.parts
                IN  IF hf.currentPartSize > 0 /\ ~inRange
                    THEN /\ ppc' = "panic"
                         /\ UNCHANGED <<u, perr, hf>>
                    ELSE /\ hf' = [hf EXCEPT !.parts = parts]
                         /\ IF HashChanged(Sha256(staging), u.TransferSha256)
                            THEN PrepReturn(NoUpload,
                                    Foreign("file changed while determining part information"))
                            ELSE PrepReturn([u EXCEPT !.PartsNil = FALSE, !.Parts = parts], Nil)
           ELSE \/ \* a read error
                   /\ hf' = hf
                   /\ PrepReturn(NoUpload, Foreign("read"))
                \/ \E n \in 1..Min(chunkSize, left) :
                    LET h1 == [hf EXCEPT !.pos = hf.pos + n,
                                         !.currentPartSize = hf.currentPartSize + n,
                                         !.short = hf.short \/ n < Min(chunkSize, left)]
                    IN  IF LastChunkOfPart(hf.currentPartChunk, chunksInPart)
                        THEN IF hf.currentPart >= hf.totalParts
                             THEN /\ ppc' = "panic"
                                  /\ hf' = h1
                                  /\ UNCHANGED <<u, perr>>
                             ELSE /\ hf' = [h1 EXCEPT
                                        !.parts[hf.currentPart + 1] =
                                            RecordedPart(h1, h1.pos, partSize),
                                        !.currentPartChunk = 0,
                                        !.currentPart = hf.currentPart + 1,
                                        !.currentPartSize = 0,
                                        !.partFrom = h1.pos]
                                  /\ UNCHANGED <<ppc, u, perr>>
                        ELSE /\ hf' = [h1 EXCEPT !.currentPartChunk = hf.currentPartChunk + 1]
                             /\ UNCHANGED <<ppc, u, perr>>

(***************************************************************************)
(* A direct call of the preparation                                        *)
(***************************************************************************)
ChunkSizes == {1, 2}
ChunkCounts == {1, 2, 4}

PrepareCall ==
    /\ pc = "idle"
    /\ pc' = "prepare"
    /\ \E in \in SeqsUpTo(MaxInput), g \in BOOLEAN, mp \in BOOLEAN,
          c \in ChunkSizes, k \in ChunkCounts :
        /\ input' = in
        /\ gz' = g
        /\ chunkSize' = c
        /\ chunksInPart' = k
        /\ multipart' = mp
        /\ ppc' = IF mp THEN "multi" ELSE "single"
    /\ UNCHANGED <<staging, u, perr, hf, inputOps, agentVars, streamVars, calls,
                   result, allowInsecure, sinkCap, redir, bodyVars, sizeVars, counterVars,
                   gzipVars, errVars,
                   requests, etags, idx, puts, queueCalls, out0>>

(***************************************************************************)
(* magic, the formatting of an error (error.go 126-170)                    *)
(***************************************************************************)
\* the nodes of an error chain: an artifactError with its message, a
\* *url.Error with its Op and URL, and an error of any other type with the
\* text of its Error(). The chain is the sequence of the nodes from the
\* outermost to the innermost; the cause of the last node is nil.
ErrorNodes ==
    {[kind |-> "internal", text |-> "Error1"], [kind |-> "internal", text |-> "Error2"],
     [kind |-> "url", text |-> "Op URL"],
     [kind |-> "other", text |-> "innermost"], [kind |-> "other", text |-> "wrapper"]}

RECURSIVE ChainsUpTo(_)
ChainsUpTo(n) ==
    IF n = 0 THEN {<<>>}
    ELSE LET prev == ChainsUpTo(n - 1)
         IN  prev \cup {<<v>> \o c : v \in ErrorNodes, c \in {t \in prev : Len(t) = n - 1}}

NoReport == [made |-> FALSE, chain |-> <<>>, lines |-> <<>>, panicked |-> FALSE]

\* the line written for a node: its number, the type printed, and whether
\* the text is the message ("internal"), "FAIL Op URL" ("fail") or the
\* result of Error() ("error"), which for a *url.Error holds the texts of
\* all the nodes below it in one line
ErrorLine(i, c, form) ==
    [n |-> i, type |-> c[1].kind, form |-> form,
     text |-> IF form = "error" /\ c[1].kind = "url" THEN [k \in 1..Len(c) |-> c[k].text]
              ELSE <<c[1].text>>]

\* error.go 138-166: the loop of magic over curErr, from line number i
RECURSIVE magic(_, _)
magic(curErr, i) ==
    IF curErr = <<>> THEN [lines |-> <<>>, panicked |-> FALSE]
    ELSE LET v == curErr[1]
             Err == Tail(curErr)
         IN  CASE v.kind = "url" ->
                    IF Err # <<>> /\ Err[1].kind = "internal"
                    THEN LET rest == magic(Err, i + 1)
                         IN  [rest EXCEPT !.lines = <<ErrorLine(i, curErr, "fail")>> \o @]
                    ELSE IF Err = <<>>
                    THEN \* v.Err.Error() on a nil interface
                         [lines |-> <<ErrorLine(i, curErr, "fail")>>, panicked |-> TRUE]
                    ELSE [lines |-> <<ErrorLine(i, curErr, "fail"),
                                      ErrorLine(i + 1, Err, "error")>>,
                          panicked |-> FALSE]
               [] v.kind = "internal" ->
                    LET rest == magic(Err, i + 1)
                    IN  [rest EXCEPT !.lines = <<ErrorLine(i, curErr, "internal")>> \o @]
               [] OTHER ->
                    [lines |-> <<ErrorLine(i, curErr, "error")>>, panicked |-> FALSE]

\* error.go 172-174: Error() of a chain whose outermost node is an
\* artifactError, or magic called on any chain
MagicCall ==
    /\ pc = "idle"
    /\ pc' = "magic"
    /\ \E c \in ChainsUpTo(MaxChain) :
        report' = [made |-> TRUE, chain |-> c,
                   lines |-> magic(c, 1).lines, panicked |-> magic(c, 1).panicked]
    /\ UNCHANGED <<agentVars, streamVars, calls, result, allowInsecure, sinkCap, redir,
                   prepVars, uploadVars, bodyVars, sizeVars, counterVars, gzipVars>>

(***************************************************************************)
(* singlePartUpload called twice                                           *)
(***************************************************************************)
\* the two calls that are compared
Runs == {1, 2}

\* the times at which a call may be made
Clocks == {"monday", "tuesday"}

NoRun == [made |-> FALSE, input |-> <<>>, gzip |-> FALSE, chunkSize |-> 0, now |-> "",
          written |-> [modTime |-> "", stream |-> <<>>], u |-> NoUpload]

\* prepare.go 153: the ModTime of the gzip header, a constant date
GzModTimeMut(now) == now
GzModTime(now) == "2000-01-00"

\* io.CopyBuffer with a buffer of n bytes: the slices the input is read in
RECURSIVE Chunks(_, _)
Chunks(s, n) ==
    IF s = <<>> THEN <<>>
    ELSE <<Prefix(s, n)>> \o Chunks(SubSeq(s, Min(n, Len(s)) + 1, Len(s)), n)

\* what a writer has received after the slices were written to it in order
RECURSIVE WrittenTo(_)
WrittenTo(chunks) ==
    IF chunks = <<>> THEN <<>> ELSE Head(chunks) \o WrittenTo(Tail(chunks))

\* prepare.go 136-197: a call of singlePartUpload that fails nowhere, with
\* the header of the gzip stream it writes
SinglePartRun(k) ==
    /\ pc \in {"idle", "twice"}
    /\ pc' = "twice"
    /\ ~runs[k].made
    /\ \E in \in SeqsUpTo(MaxInput), g \in BOOLEAN, c \in ChunkSizes, now \in Clocks :
        LET data == WrittenTo(Chunks(in, c))
            out == [modTime |-> IF g THEN GzModTime(now) ELSE "",
                    stream |-> TransferBytes(data, g)]
            plan == SinglePartPlan(data, g)
        IN  runs' = [runs EXCEPT ![k] =
                        [made |-> TRUE, input |-> in, gzip |-> g, chunkSize |-> c,
                         now |-> now, written |-> out,
                         u |-> [plan EXCEPT !.TransferSha256 = Sha256(out),
                                            !.Sha256 = Sha256(data)]]]
    /\ UNCHANGED <<agentVars, streamVars, calls, result, allowInsecure, sinkCap, redir,
                   prepVars, uploadVars, bodyVars, sizeVars, counterVars, errVars>>

(***************************************************************************)
(* Client.download (interface.go 273-345)                                  *)
(***************************************************************************)
\* net/url Parse on the Location values above
ParseURL(l) ==
    CASE l = "https://store/object" -> [ok |-> TRUE, scheme |-> "https"]
      [] l = "http://store/object" -> [ok |-> TRUE, scheme |-> "http"]
      [] l = "" -> [ok |-> TRUE, scheme |-> ""]
      [] OTHER -> [ok |-> FALSE, scheme |-> ""]

\* the output writers of a download: whether it has Stat() and Seek(), and
\* whether the call succeeds; and what the writer already holds
SinkCaps ==
    {[stat |-> st, seek |-> sk, initial |-> c] :
        st \in {"absent", "ok", "fails"}, sk \in {"absent", "ok", "fails"},
        c \in {<<>>, <<1>>}}

\* interface.go 277-296: the output observed not to be empty
SinkRefusedMut(cap) == cap.stat = "ok" /\ Len(cap.initial) # 0
SinkRefused(cap) ==
    \/ cap.stat = "ok" /\ Len(cap.initial) # 0
    \/ cap.seek = "ok" /\ Len(cap.initial) # 0

\* a GET without body or headers, as download builds it
GetArg(url, sinkTo, verify, peer) ==
    [url |-> url, urlOK |-> TRUE, cl |-> AbsentNum, hasBody |-> FALSE, body |-> <<>>,
     sinkTo |-> sinkTo, verify |-> verify, peer |-> peer]

QueueURL == "https://queue/task/artifact"

\* interface.go 300-302: where run writes the body of the redirect-capture
\* response, the caller's output ("out") or redirectBuf ("buf")
RedirectSinkMut == "out"
RedirectSink == "buf"

\* interface.go 273-302: check the output, send the redirect-capture GET
DownloadStart ==
    /\ pc = "idle"
    /\ \E ai \in BOOLEAN, cap \in SinkCaps :
        /\ allowInsecure' = ai
        /\ sinkCap' = cap
        /\ sink' = cap.initial
        /\ membuf' = <<>>
        /\ UNCHANGED <<redir, prepVars, uploadVars, bodyVars, sizeVars, counterVars, gzipVars, errVars>>
        /\ IF SinkRefused(cap)
           THEN /\ pc' = "done"
                /\ result' = ErrBadOutputWriter
                /\ UNCHANGED <<agentVars, calls>>
           ELSE /\ pc' = "dl-redirect"
                /\ result' = Nil
                /\ Call(GetArg(QueueURL, RedirectSink, FALSE, "queue-get"))

\* what the redirect-capture request returned, as download reads it
Captured ==
    [status |-> cs.StatusCode,
     location |-> cs.ResponseHeader.location,
     storageType |-> cs.ResponseHeader.storageType,
     body |-> wire,
     err |-> err]

\* DownloadURL: the dispatch on x-taskcluster-artifact-storage-type
StorageDispatch(t) ==
    CASE t = "error" -> "error"
      [] t \in {"reference", "s3", "azure"} -> "plain"
      [] OTHER -> "blob"

\* interface.go 308: the redirect-capture status must be a 3xx
IsRedirectMut(status) == status < 400
IsRedirect(status) == status >= 300 /\ status < 400

\* interface.go 326: a redirect that may not be followed
InsecureRefusedMut(ai, scheme) == ~ai /\ scheme = ""
InsecureRefused(ai, scheme) == ~ai /\ scheme # "https"

\* interface.go 335: the object is requested with verification
BlobVerifyMut == FALSE
BlobVerify == TRUE

\* the top-level operation returns e
Finish(e) ==
    /\ pc' = "done"
    /\ result' = e

\* interface.go 303-335: after the redirect-capture request of a blob
DownloadRedirect ==
    /\ pc = "dl-redirect" /\ rpc = "ret"
    /\ StorageDispatch(cs.ResponseHeader.storageType) = "blob"
    /\ redir' = Captured
    /\ UNCHANGED <<sink, allowInsecure, sinkCap, prepVars, uploadVars, bodyVars, sizeVars, counterVars, gzipVars, errVars>>
    /\ LET location == cs.ResponseHeader.location
           resourceURL == ParseURL(location)
       IN  IF err # Nil
           THEN /\ Finish(newError(err, "running redirect request"))
                /\ UNCHANGED <<agentVars, calls, membuf>>
           ELSE IF ~IsRedirect(cs.StatusCode)
           THEN /\ Finish(ErrExpectedRedirect)
                /\ UNCHANGED <<agentVars, calls, membuf>>
           ELSE /\ membuf' = <<>>
                /\ IF location = ""
                   THEN Finish(ErrBadRedirect) /\ UNCHANGED <<agentVars, calls>>
                   ELSE IF ~resourceURL.ok
                   THEN /\ Finish(newError(Foreign("url.Parse"), "parsing Location header value"))
                        /\ UNCHANGED <<agentVars, calls>>
                   ELSE IF InsecureRefused(allowInsecure, resourceURL.scheme)
                   THEN Finish(ErrHTTPS) /\ UNCHANGED <<agentVars, calls>>
                   ELSE /\ pc' = "dl-object"
                        /\ result' = result
                        /\ Call(GetArg(location, "out", BlobVerify, "store-get"))

\* interface.go 336-344: after the request of the object itself
DownloadObject ==
    /\ pc = "dl-object" /\ rpc = "ret"
    /\ Finish(IF err # Nil THEN err
              ELSE IF cs.StatusCode >= 300 THEN ErrUnexpectedRedirect
              ELSE Nil)
    /\ UNCHANGED <<agentVars, calls, sink, membuf, allowInsecure, sinkCap, redir, prepVars, uploadVars, bodyVars, sizeVars, counterVars, gzipVars, errVars>>

\* DownloadURL, storage type error: the body of the response goes to the
\* output and ErrErr is returned
DownloadErrorArtifact ==
    /\ pc = "dl-redirect" /\ rpc = "ret"
    /\ resp.received
    /\ StorageDispatch(cs.ResponseHeader.storageType) = "error"
    /\ redir' = Captured
    /\ sink' = sink \o wire
    /\ Finish(ErrErr)
    /\ UNCHANGED <<agentVars, calls, membuf, allowInsecure, sinkCap, prepVars, uploadVars, bodyVars, sizeVars, counterVars, gzipVars, errVars>>

\* DownloadURL, storage types reference, s3 and azure: Location is followed
\* with a plain GET into the output, nothing is verified
DownloadPlain ==
    /\ pc = "dl-redirect" /\ rpc = "ret"
    /\ StorageDispatch(cs.ResponseHeader.storageType) = "plain"
    /\ redir' = Captured
    /\ UNCHANGED <<sink, allowInsecure, sinkCap, prepVars, uploadVars, bodyVars, sizeVars, counterVars, gzipVars, errVars>>
    /\ IF err # Nil
       THEN /\ Finish(newError(err, "running redirect request"))
            /\ UNCHANGED <<agentVars, calls, membuf>>
       ELSE /\ membuf' = <<>>
            /\ pc' = "dl-plain"
            /\ result' = result
            /\ Call([GetArg(cs.ResponseHeader.location, "out", FALSE, "store-get")
                        EXCEPT !.urlOK = cs.ResponseHeader.location # ""
                                         /\ ParseURL(cs.ResponseHeader.location).ok])

\* DownloadURL: after the plain GET
DownloadPlainDone ==
    /\ pc = "dl-plain" /\ rpc = "ret"
    /\ Finish(err)
    /\ UNCHANGED <<agentVars, calls, sink, membuf, allowInsecure, sinkCap, redir, prepVars, uploadVars, bodyVars, sizeVars, counterVars, gzipVars, errVars>>

(***************************************************************************)
(* The sizes of a Client (interface.go 37-92)                              *)
(*                                                                         *)
(* Scaled like the minimums: the default chunk size is the minimum of a    *)
(* chunk, the default part size the minimum of a part.                     *)
(***************************************************************************)
DefaultChunkSize == 2
DefaultPartSize == 2

\* interface.go 52-60: New
NewSizes == [chunkSize |-> DefaultChunkSize, multipartPartChunkCount |-> DefaultPartSize]

NoSetCall == [made |-> FALSE, chunkSize |-> 0, partSize |-> 0, err |-> Nil, before |-> NewSizes]

\* interface.go 71, 75, 79: the three refusals of SetInternalSizes
PartBelowMinimum(partSize) == partSize < MinPartSize

ChunkBelowMinimum(cSize) == cSize < MinChunkSize

NotDivisibleMut(partSize, cSize) == FALSE
NotDivisible(partSize, cSize) == partSize % cSize # 0

\* interface.go 90-92: GetInternalSizes
GetInternalSizes(c) == <<c.chunkSize, c.multipartPartChunkCount * c.chunkSize>>

\* interface.go 70-86: SetInternalSizes
SetInternalSizes ==
    /\ pc \in {"idle", "sizes"}
    /\ pc' = "sizes"
    /\ UNCHANGED <<agentVars, streamVars, calls, result, allowInsecure, sinkCap, redir,
                   prepVars, uploadVars, bodyVars, counterVars, gzipVars, errVars>>
    /\ \E c \in 0..MaxSizeArg, p \in 0..MaxSizeArg :
        LET refusal ==
                IF PartBelowMinimum(p) THEN newError(Nil, "part size is not minimum of 5MB")
                ELSE IF ChunkBelowMinimum(c) THEN newError(Nil, "chunk size is not minimum of 1KB")
                ELSE IF NotDivisible(p, c)
                THEN newError(Nil, "part size is not divisible by chunk size")
                ELSE Nil
        IN  /\ setCall' = [made |-> TRUE, chunkSize |-> c, partSize |-> p, err |-> refusal,
                           before |-> sizes]
            /\ sizes' = IF refusal # Nil THEN sizes
                        ELSE [chunkSize |-> c, multipartPartChunkCount |-> p \div c]

(***************************************************************************)
(* byteCountingWriter                                                      *)
(***************************************************************************)
\* the goroutines that call Write on one byteCountingWriter
Writers == {1, 2}

\* count: the field of the writer.
\* at: where each goroutine is in Write: "idle", or "store" between its load
\* of count and its store of the sum.
\* nBytes: len(p) of the call a goroutine is in.
\* loaded: the value of count a goroutine has loaded.
\* ret: what the last call of a goroutine returned.
\* calls, written: history, the calls made and the sum of their len(p).
NewWriter ==
    [count |-> 0,
     at |-> [w \in Writers |-> "idle"],
     nBytes |-> [w \in Writers |-> 0],
     loaded |-> [w \in Writers |-> 0],
     ret |-> [w \in Writers |-> [n |-> 0, err |-> Nil]],
     calls |-> 0,
     written |-> 0]

\* Write, first half: nBytes := len(p), and the load of c.count. The field
\* is a plain int64 that "+=" reads and then writes, with no lock and no
\* sync/atomic.
WriteLoad(w) ==
    /\ pc \in {"idle", "counter"}
    /\ writer.at[w] = "idle"
    /\ writer.calls < MaxWrites
    /\ \E len \in 0..MaxSlice :
        writer' = [writer EXCEPT !.at[w] = "store",
                                 !.nBytes[w] = len,
                                 !.loaded[w] = writer.count,
                                 !.calls = @ + 1,
                                 !.written = @ + len]
    /\ pc' = "counter"
    /\ UNCHANGED <<agentVars, streamVars, calls, result, allowInsecure, sinkCap, redir,
                   prepVars, uploadVars, bodyVars, sizeVars, gzipVars, errVars>>

\* Write, second half: the store of the sum into c.count, and the return
WriteStore(w) ==
    /\ writer.at[w] = "store"
    /\ writer' = [writer EXCEPT !.at[w] = "idle",
                                !.count = writer.loaded[w] + writer.nBytes[w],
                                !.ret[w] = [n |-> writer.nBytes[w], err |-> Nil]]
    /\ UNCHANGED <<agentVars, streamVars, calls, clientVars,
                   prepVars, uploadVars, bodyVars, sizeVars, gzipVars, errVars>>

(***************************************************************************)
(* body (body.go)                                                          *)
(***************************************************************************)
\* state: "none" before newBody, "ok" a body, "error" newBody failed,
\* "closed" after Close, "panic" a nil reader was used.
\* src, spos: the bytes of the backing reader and its position.
\* n: what the limit reader still allows.
\* got, eof: what Read has returned since the limit reader was installed.
\* resets, readAtReset: the calls of Reset that succeeded, and how many
\* bytes had been read when the last one was made
NoBody ==
    [state |-> "none", src |-> <<>>, spos |-> 0, offset |-> 0, size |-> 0, n |-> 0,
     got |-> <<>>, eof |-> FALSE, resets |-> 0, readAtReset |-> 0]

\* body.go 20: newBody refuses a size of 0
EmptyBody(size) == size = 0

\* body.go 38: where Reset seeks the backing reader to
SeekTargetMut(offset, spos) == spos
SeekTarget(offset, spos) == offset

\* body.go 42: the limit Reset installs
LimitOfMut(size) == size + 1
LimitOf(size) == size

\* body.go 37-44: Reset, when its seek succeeds
AfterReset(b) ==
    [b EXCEPT !.spos = SeekTarget(b.offset, b.spos),
              !.n = LimitOf(b.size),
              !.got = <<>>,
              !.eof = FALSE]

\* body.go 19-32: newBody
BodyNew ==
    /\ pc = "idle"
    /\ pc' = "body"
    /\ UNCHANGED <<agentVars, streamVars, calls, result, allowInsecure, sinkCap, redir,
                   prepVars, uploadVars, sizeVars, counterVars, gzipVars, errVars>>
    /\ \E src \in SeqsUpTo(MaxSource), offset \in 0..MaxSource, size \in 0..MaxSource,
          seekErr \in BOOLEAN :
        LET b == [NoBody EXCEPT !.src = src, !.offset = offset, !.size = size]
        IN  IF EmptyBody(size) \/ seekErr
            THEN bd' = [b EXCEPT !.state = "error"]
            ELSE bd' = [AfterReset(b) EXCEPT !.state = "ok"]

\* body.go 47-49: Read, through io.LimitedReader: end of stream once the
\* limit is used up or the backing reader is at its end, else some of the
\* bytes that both still allow
BodyRead ==
    /\ pc = "body" /\ bd.state = "ok" /\ ~bd.eof
    /\ UNCHANGED <<agentVars, streamVars, calls, clientVars, prepVars, uploadVars, sizeVars, counterVars, gzipVars, errVars>>
    /\ LET avail == Len(bd.src) - bd.spos
       IN  IF bd.n <= 0 \/ avail <= 0
           THEN bd' = [bd EXCEPT !.eof = TRUE]
           ELSE \E m \in 1..Min(bd.n, avail) :
                bd' = [bd EXCEPT !.got = bd.got \o SubSeq(bd.src, bd.spos + 1, bd.spos + m),
                                 !.spos = bd.spos + m,
                                 !.n = bd.n - m]

\* body.go 37-44: Reset; a failing seek leaves the limit reader as it is
BodyReset ==
    /\ pc = "body" /\ bd.state = "ok" /\ bd.resets < MaxResets
    /\ UNCHANGED <<agentVars, streamVars, calls, clientVars, prepVars, uploadVars, sizeVars, counterVars, gzipVars, errVars>>
    /\ \/ bd' = bd
       \/ bd' = [AfterReset(bd) EXCEPT !.resets = bd.resets + 1,
                                       !.readAtReset = Len(bd.got)]

\* body.go 53-66: Close
BodyClose ==
    /\ pc = "body" /\ bd.state = "ok"
    /\ UNCHANGED <<agentVars, streamVars, calls, clientVars, prepVars, uploadVars, sizeVars, counterVars, gzipVars, errVars>>
    /\ \/ bd' = bd
       \/ bd' = [bd EXCEPT !.state = "closed"]

\* body.go 38, 48: Reset or Read on a closed body calls a method of a nil
\* interface value
BodyUseAfterClose ==
    /\ pc = "body" /\ bd.state = "closed"
    /\ UNCHANGED <<agentVars, streamVars, calls, clientVars, prepVars, uploadVars, sizeVars, counterVars, gzipVars, errVars>>
    /\ bd' = [bd EXCEPT !.state = "panic"]

(***************************************************************************)
(* Client.Upload (interface.go 100-259)                                    *)
(***************************************************************************)
NoRequests == [n |-> 0, cl |-> "absent", headersOK |-> TRUE]

NoOutput == [held |-> <<>>, seek |-> "ok"]

\* the chunk size and chunks per part a Client can hold: those of New and
\* those SetInternalSizes accepts (interface.go 70-86)
ClientSizes ==
    {s \in ChunkSizes \X ChunkCounts :
        s[1] >= MinChunkSize /\ s[1] * s[2] >= MinPartSize}

\* the URL of the i-th request of the createArtifact response
PutURL(i) == "put-" \o ToString(i)

\* the output streams handed to Upload: what they hold, and whether the
\* seek to the end (interface.go 107) or the seek to the start (126) fails
Outputs ==
    {[held |-> h, seek |-> k] : h \in {<<>>, <<1>>}, k \in {"ok", "fails", "second fails"}}

\* interface.go 111: the output already holds data
OutputRefusedMut(outSize) == FALSE
OutputRefused(outSize) == outSize # 0

\* interface.go 100-143: the checks of the output, the sniff of the content
\* type, and the call of the preparation
UploadStart ==
    /\ pc = "idle"
    /\ UNCHANGED <<agentVars, streamVars, calls, allowInsecure, sinkCap, redir,
                   u, perr, hf, requests, etags, idx, puts, queueCalls, bodyVars, sizeVars, counterVars, gzipVars, errVars>>
    /\ \E in \in SeqsUpTo(MaxInput), g \in BOOLEAN, mp \in BOOLEAN, s \in ClientSizes,
          o \in Outputs :
        /\ input' = in
        /\ gz' = g
        /\ multipart' = mp
        /\ chunkSize' = s[1]
        /\ chunksInPart' = s[2]
        /\ out0' = o
        /\ staging' = o.held
        /\ IF o.seek = "fails"
           THEN /\ Finish(newError(Foreign("seek"), "seeking output to start for upload"))
                /\ UNCHANGED <<ppc, inputOps>>
           ELSE IF OutputRefused(Len(o.held))
           THEN /\ Finish(ErrBadOutputWriter)
                /\ UNCHANGED <<ppc, inputOps>>
           ELSE /\ inputOps' = inputOps \o <<"read">>
                /\ IF in = <<>>
                   THEN /\ Finish(newError(Foreign("EOF"),
                                          "reading 512 bytes to determine mime type"))
                        /\ ppc' = ppc
                   ELSE IF o.seek = "second fails"
                   THEN /\ Finish(newError(Foreign("seek"), "seeking back to start"))
                        /\ ppc' = ppc
                   ELSE /\ pc' = "up-prepare"
                        /\ result' = result
                        /\ ppc' = IF mp THEN "multi" ELSE "single"

\* interface.go 133-205: the result of the preparation, the createArtifact
\* call and the etags slice
UploadCreate ==
    /\ pc = "up-prepare" /\ ppc = "ret"
    /\ UNCHANGED <<agentVars, streamVars, calls, allowInsecure, sinkCap, redir,
                   prepVars, multipart, puts, out0, bodyVars, sizeVars, counterVars, gzipVars, errVars>>
    /\ IF perr # Nil
       THEN /\ Finish(newError(perr, "preparing upload"))
            /\ UNCHANGED <<requests, etags, idx, queueCalls>>
       ELSE /\ queueCalls' = Append(queueCalls, [op |-> "createArtifact", etags |-> <<>>])
            /\ \/ /\ Finish(newError(Foreign("queue"), "making createArtifact queue call"))
                  /\ UNCHANGED <<requests, etags, idx>>
               \/ \E n \in 0..MaxRequests, c \in {"absent", "exact"}, ok \in BOOLEAN :
                    /\ requests' = [n |-> n, cl |-> c, headersOK |-> ok]
                    /\ etags' = [i \in 1..n |-> ""]
                    /\ idx' = 1
                    /\ pc' = "up-put"
                    /\ result' = result

\* interface.go 218-224: the bytes of the staging stream a request carries
BodyRange(plan, i) ==
    IF plan.PartsNil
    THEN [start |-> 0, end |-> plan.TransferSize]
    ELSE [start |-> plan.Parts[i].Start, end |-> plan.Parts[i].Size]

\* body.go: what the request body yields, a limit reader over the backing
\* reader after a seek to the offset
BodyBytes(backing, offset, size) ==
    SubSeq(backing, offset + 1, Min(offset + size, Len(backing)))

\* interface.go 226: the stream newBody is given as the backing reader of
\* a request body
BodyBackingMut == "input"
BodyBacking == "output"

\* body.go 19-44: newBody seeks its backing reader to the offset; what that
\* does to the input stream of the upload
BackingOps(stream) == IF stream = "input" THEN <<"seek">> ELSE <<>>

\* interface.go 207-234: one request of the loop, up to the call of run
UploadPut ==
    /\ pc = "up-put" /\ idx <= requests.n
    /\ UNCHANGED <<sink, allowInsecure, sinkCap, redir, uploadVars, bodyVars, sizeVars, counterVars, gzipVars, errVars>>
    /\ UNCHANGED <<ppc, input, staging, gz, chunkSize, chunksInPart, u, perr, hf>>
    /\ inputOps' = IF /\ requests.headersOK
                      /\ u.PartsNil \/ idx <= Len(u.Parts)
                      /\ ~EmptyBody(BodyRange(u, idx).end)
                   THEN inputOps \o BackingOps(BodyBacking)
                   ELSE inputOps
    /\ IF ~requests.headersOK
       THEN /\ Finish(newError(Foreign("header"), "creating request"))
            /\ UNCHANGED <<agentVars, calls, membuf>>
       ELSE IF ~u.PartsNil /\ idx > Len(u.Parts)
       THEN \* u.Parts[i]: index out of range
            /\ pc' = "panic"
            /\ UNCHANGED <<agentVars, calls, membuf, result>>
       ELSE LET r == BodyRange(u, idx)
            IN  IF EmptyBody(r.end)
                THEN /\ Finish(newError(Foreign("cannot specify a size of 0"), "creating body"))
                     /\ UNCHANGED <<agentVars, calls, membuf>>
                ELSE \/ /\ Finish(newError(Foreign("seek"), "creating body"))
                        /\ UNCHANGED <<agentVars, calls, membuf>>
                     \/ /\ pc' = "up-run"
                        /\ result' = result
                        /\ membuf' = <<>>
                        /\ Call([url |-> PutURL(idx), urlOK |-> TRUE,
                                 cl |-> IF requests.cl = "exact"
                                        THEN NumText(r.end) ELSE AbsentNum,
                                 hasBody |-> TRUE,
                                 body |-> BodyBytes(IF BodyBacking = "input" THEN input ELSE staging,
                                                    r.start, r.end),
                                 sinkTo |-> "buf", verify |-> FALSE, peer |-> "store-put"])

\* interface.go 235: the test that ends the upload after a run
PutFailedMut(e) == FALSE
PutFailed(e) == e # Nil

\* interface.go 244: the position of etags the ETag of request i goes to
EtagSlotMut(i) == 1
EtagSlot(i) == i

\* interface.go 207: the range loop moves on to the next request
NextRequestMut(i) == i
NextRequest(i) == i + 1

\* interface.go 234-245: after run has returned
UploadPutDone ==
    /\ pc = "up-run" /\ rpc = "ret"
    /\ UNCHANGED <<agentVars, calls, sink, allowInsecure, sinkCap, redir, prepVars,
                   multipart, requests, queueCalls, out0, bodyVars, sizeVars, counterVars, gzipVars, errVars>>
    /\ puts' = Append(puts, [idx |-> idx, etag |-> cs.ResponseHeader.etag, err |-> err,
                            body |-> rarg.body])
    /\ IF PutFailed(err)
       THEN /\ Finish(newError(err, "reading bytes for upload"))
            /\ UNCHANGED <<membuf, etags, idx>>
       ELSE /\ membuf' = <<>>
            /\ etags' = [etags EXCEPT ![EtagSlot(idx)] = cs.ResponseHeader.etag]
            /\ idx' = NextRequest(idx)
            /\ pc' = "up-put"
            /\ result' = result

\* interface.go 247-257: the completeArtifact call
UploadComplete ==
    /\ pc = "up-put" /\ idx > requests.n
    /\ UNCHANGED <<agentVars, streamVars, calls, allowInsecure, sinkCap, redir, prepVars,
                   multipart, requests, etags, idx, puts, out0, bodyVars, sizeVars, counterVars, gzipVars, errVars>>
    /\ queueCalls' = Append(queueCalls, [op |-> "completeArtifact", etags |-> etags])
    /\ \/ Finish(newError(Foreign("queue"), "completing artifact upload"))
       \/ Finish(Nil)

vars == <<rpc, rarg, count, resp, cs, retryable, err, site, closed, enc, wire, meas, amz,
          sink, membuf, calls, pc, result, allowInsecure, sinkCap, redir,
          ppc, input, staging, gz, chunkSize, chunksInPart, u, perr, hf,
          inputOps, multipart, requests, etags, idx, puts, queueCalls, out0, bd,
          sizes, setCall, writer, runs, report>>

Init ==
    /\ rpc = "idle"
    /\ rarg = NoArg
    /\ count = 0
    /\ resp = NoResponse
    /\ cs = EmptySummary
    /\ retryable = FALSE
    /\ err = Nil
    /\ site = "idle"
    /\ closed = "none"
    /\ enc = ""
    /\ wire = <<>>
    /\ meas = NoMeas
    /\ amz = NoAmz
    /\ sink = <<>>
    /\ membuf = <<>>
    /\ calls = <<>>
    /\ pc = "idle"
    /\ result = Nil
    /\ allowInsecure = FALSE
    /\ sinkCap = NoCap
    /\ redir = NoRedirect
    /\ ppc = "idle"
    /\ input = <<>>
    /\ staging = <<>>
    /\ gz = FALSE
    /\ chunkSize = 1
    /\ chunksInPart = 1
    /\ u = NoUpload
    /\ perr = Nil
    /\ hf = NoHash
    /\ multipart = FALSE
    /\ requests = NoRequests
    /\ etags = <<>>
    /\ idx = 0
    /\ puts = <<>>
    /\ queueCalls = <<>>
    /\ inputOps = <<>>
    /\ out0 = NoOutput
    /\ bd = NoBody
    /\ sizes = NewSizes
    /\ setCall = NoSetCall
    /\ writer = NewWriter
    /\ runs = [k \in Runs |-> NoRun]
    /\ report = NoReport

NextRun == RunCall \/ AgentDo \/ AgentCopy \/ AgentVerify

SpecRun == Init /\ [][NextRun]_vars

NextPrepare == PrepareCall \/ SinglePartUpload \/ MultiPartUpload \/ HashFileRead

SpecPrepare == Init /\ [][NextPrepare]_vars

NextSizes == SetInternalSizes

SpecSizes == Init /\ [][NextSizes]_vars

NextCounter == \E w \in Writers : WriteLoad(w) \/ WriteStore(w)

SpecCounter == Init /\ [][NextCounter]_vars

NextTwice == \E k \in Runs : SinglePartRun(k)

SpecTwice == Init /\ [][NextTwice]_vars

SpecError == Init /\ [][MagicCall]_vars

NextBody == BodyNew \/ BodyRead \/ BodyReset \/ BodyClose \/ BodyUseAfterClose

SpecBody == Init /\ [][NextBody]_vars

NextUpload ==
    \/ UploadStart \/ SinglePartUpload \/ MultiPartUpload \/ HashFileRead
    \/ UploadCreate \/ UploadPut \/ AgentDo \/ AgentCopy \/ UploadPutDone
    \/ UploadComplete

SpecUpload == Init /\ [][NextUpload]_vars

\* Upload is one sequential function: every step of it that can be taken is
\* taken (the requests of the agent return, by an answer or by an error)
SpecUploadLive == SpecUpload /\ WF_vars(NextUpload)

NextDownload ==
    \/ DownloadStart \/ DownloadRedirect \/ DownloadObject
    \/ DownloadErrorArtifact \/ DownloadPlain \/ DownloadPlainDone
    \/ AgentDo \/ AgentCopy \/ AgentVerify

SpecDownload == Init /\ [][NextDownload]_vars

\* a Client used for one upload or one download
NextClient == NextUpload \/ NextDownload

SpecClient == Init /\ [][NextClient]_vars

(***************************************************************************)
(* Claims about client.run                                                 *)
(***************************************************************************)
\* the run has returned
Returned == rpc = "ret"

\* the run went through the whole copy of a response with a status below
\* 400 and a supported encoding, and then through the verify phase
VerifyPhaseDone ==
    /\ Returned
    /\ rarg.verify
    /\ resp.received /\ resp.status < 400
    /\ SupportedEncoding(enc)
    /\ site \in {"verify-parse", "corrupt", "ok"}

\* one of the four measured values disagrees with its header, the transfer
\* headers defaulting to the content headers when absent
Disagrees ==
    LET tLen == IF amz.tLen.kind = "absent" THEN amz.cLen ELSE amz.tLen
        tSha == IF amz.tSha.len = 0 THEN amz.cSha ELSE amz.tSha
    IN  \/ amz.cLen.kind # "num" \/ amz.cLen.val # meas.contentBytes
        \/ amz.cSha.len # 64 \/ amz.cSha # meas.sContentHash
        \/ tLen.kind # "num" \/ tLen.val # meas.transferBytes
        \/ tSha # meas.sTransferHash

\* C1 (as claimed): after a completed copy of a response with status < 400
\* and a supported encoding, and a clean close of the body, run with
\* verify=true returns (ErrCorrupt, retryable=true) exactly when one of the
\* four measured values disagrees with its x-amz-meta-* header, and
\* (nil, retryable=false) otherwise.
C1_CorruptIffDisagrees ==
    (VerifyPhaseDone /\ closed = "ok") =>
        /\ (err = ErrCorrupt /\ retryable) <=> Disagrees
        /\ ~Disagrees => (err = Nil /\ ~retryable)

\* C10 (as claimed): every failure found in the verify phase, a non-numeric
\* x-amz-meta-content-length or x-amz-meta-transfer-length included, is
\* returned as ErrCorrupt with retryable=true.
C10_VerifyFailureIsErrCorrupt ==
    (VerifyPhaseDone /\ err # Nil /\ closed = "ok") => (err = ErrCorrupt /\ retryable)

\* the request carried a Content-Length of L and another number of body
\* bytes was read for it
ReadDiffers == rarg.cl.kind = "num" /\ count # rarg.cl.val

SummaryCarriesResponse ==
    /\ cs.StatusCode = resp.status
    /\ cs.Status = StatusText(resp.status)
    /\ cs.ResponseHeader = resp.header /\ cs.ResponseHeader.set

\* C8 (as claimed): in every run in which a response is received, a status
\* in 400..499 yields retryable=false and an error, a status >= 500 yields
\* retryable=true and an error, and the summary carries the response.
C8_StatusClasses_Original ==
    (Returned /\ resp.received) =>
        /\ (resp.status >= 400 /\ resp.status <= 499) => (~retryable /\ err # Nil)
        /\ resp.status >= 500 => (retryable /\ err # Nil)
        /\ resp.status >= 400 => SummaryCarriesResponse

\* C8 (amended): the same, for the runs in which the Content-Length check
\* passes (no Content-Length header, or as many body bytes read).
C8_StatusClasses ==
    (Returned /\ resp.received /\ ~ReadDiffers) =>
        /\ (resp.status >= 400 /\ resp.status <= 499) => (~retryable /\ err # Nil)
        /\ resp.status >= 500 => (retryable /\ err # Nil)
        /\ resp.status >= 400 => SummaryCarriesResponse

\* C8 witness: a 4xx classified as not retryable, with its summary
C8_Witness ==
    /\ Returned /\ resp.received /\ ~ReadDiffers
    /\ resp.status = 404 /\ ~retryable /\ err # Nil /\ cs.StatusCode = 404


(***************************************************************************)
(* Claims about the download                                               *)
(***************************************************************************)
DownloadDone == pc = "done" /\ Len(calls) >= 1 /\ calls[1].url = QueueURL

\* what a completed, error free run leaves in its output: the decoded body
Streamed == IF IsGzip(enc) THEN GzPayload(wire) ELSE wire

RedirectCaptured ==
    /\ redir.err = Nil
    /\ redir.status >= 300 /\ redir.status <= 399
    /\ redir.storageType \in {"", "blob"}
    /\ redir.location # ""
    /\ ParseURL(redir.location).ok

PreparedSingle == pc = "prepare" /\ ppc = "ret" /\ perr = Nil /\ u.PartsNil

PreparedMulti == pc = "prepare" /\ ppc = "ret" /\ perr = Nil /\ ~u.PartsNil

\* C2: after singlePartUpload succeeds, the content digest and size are
\* those of the input, the transfer digest and size are those of the bytes
\* written to the output, and the content encoding is "gzip" when gzip was
\* asked for and "identity" otherwise.
C2_SinglePartDigests ==
    PreparedSingle =>
        /\ u.Sha256 = Sha256(input)
        /\ u.Size = Len(input)
        /\ u.TransferSha256 = Sha256(staging)
        /\ u.TransferSize = Len(staging)
        /\ u.ContentEncoding = (IF gz THEN "gzip" ELSE "identity")

C2_Witness ==
    /\ PreparedSingle
    /\ gz
    /\ Len(input) = 2
    /\ u.TransferSize = 4
    /\ u.TransferSha256 # u.Sha256

RECURSIVE SumSizes(_, _)
SumSizes(parts, n) == IF n = 0 THEN 0 ELSE SumSizes(parts, n - 1) + parts[n].Size

\* C3: after multiPartUpload succeeds, the parts are a contiguous partition
\* of the staging stream: each part starts where the parts before it end,
\* no part is empty, the sizes add up to the transfer size, and the digest
\* of a part is that of the staging bytes of its range.
C3_PartsPartition ==
    PreparedMulti =>
        /\ \A i \in 1..Len(u.Parts) :
            /\ u.Parts[i].Start = SumSizes(u.Parts, i - 1)
            /\ u.Parts[i].Size > 0
            /\ u.Parts[i].Sha256 =
                    Sha256(SubSeq(staging, u.Parts[i].Start + 1,
                                  u.Parts[i].Start + u.Parts[i].Size))
        /\ SumSizes(u.Parts, Len(u.Parts)) = u.TransferSize

(***************************************************************************)
(* Claims about Client.Upload                                              *)
(***************************************************************************)
\* the etags a completeArtifact call must carry: those of the responses,
\* in the order of the requests
ReturnedETags == [k \in 1..Len(puts) |-> puts[k].etag]

\* C4: the requests of an upload are sent in their order, each only after
\* the one before it has returned without error; the ETag of the response
\* to request i is kept at position i; completeArtifact is called only
\* once every request has returned without error, with their ETags in the
\* order of the requests.
C4_PutsInOrder ==
    /\ \A k \in 1..Len(calls) : calls[k].url = PutURL(k)
    /\ Len(calls) <= Len(puts) + 1
    /\ \A k \in 1..(Len(calls) - 1) : puts[k].idx = k /\ puts[k].err = Nil
    /\ \A k \in 1..Len(puts) : puts[k].err = Nil => etags[k] = puts[k].etag
    /\ \A q \in 1..Len(queueCalls) :
        queueCalls[q].op = "completeArtifact" =>
            /\ Len(puts) = requests.n
            /\ \A k \in 1..Len(puts) : puts[k].err = Nil
            /\ queueCalls[q].etags = ReturnedETags

C4_Witness ==
    /\ pc = "done"
    /\ result = Nil
    /\ requests.n = 2
    /\ Len(queueCalls) = 2
    /\ queueCalls[2] = [op |-> "completeArtifact", etags |-> <<"etag-a", "etag-b">>]
    /\ ~u.PartsNil

\* C5: when a run of the agent returns an error for a request of an
\* upload, retryable or not, no later request is sent, completeArtifact is
\* never called, and Upload returns an error.
C5_AbortOnRunError ==
    \A k \in 1..Len(puts) :
        puts[k].err # Nil =>
            /\ k = Len(puts)
            /\ Len(calls) = k
            /\ \A q \in 1..Len(queueCalls) : queueCalls[q].op # "completeArtifact"
            /\ pc = "done"
            /\ result # Nil

C5_Witness ==
    /\ pc = "done"
    /\ requests.n = 2
    /\ Len(puts) = 1
    /\ puts[1].err # Nil
    /\ retryable
    /\ result # Nil

(***************************************************************************)
(* Claims about retries                                                    *)
(***************************************************************************)
\* no request has been made twice
NoRepeatedCall == \A j, k \in 1..Len(calls) : j # k => calls[j] # calls[k]

\* a run that has returned an error is followed by no other request
FailedRunIsLast == (rpc = "ret" /\ err # Nil) => calls' = calls

\* C11: within one Upload or download no request is repeated, and no
\* request follows a run of the agent that returned an error, whatever its
\* retryable flag says.
C11_NeverRetries == [](NoRepeatedCall) /\ [][FailedRunIsLast]_vars

C11_Witness ==
    /\ pc = "done"
    /\ rpc = "ret"
    /\ err # Nil
    /\ retryable
    /\ Len(calls) = 1
    /\ requests.n = 2

(***************************************************************************)
(* Claims about the output streams                                         *)
(***************************************************************************)
\* Upload was called with an output whose seek to the end succeeds and
\* gives an offset that is not zero
OutputHeldData == pc # "idle" /\ out0.seek # "fails" /\ Len(out0.held) # 0

\* C12: Upload with an output stream that already holds data returns
\* ErrBadOutputWriter, and has then written nothing to the output, read
\* nothing of the input, called the Queue for nothing and sent no request.
C12_NonEmptyOutputRefused ==
    OutputHeldData =>
        /\ pc = "done"
        /\ result = ErrBadOutputWriter
        /\ staging = out0.held
        /\ inputOps = <<>>
        /\ queueCalls = <<>>
        /\ calls = <<>>

C12_Witness ==
    /\ OutputHeldData
    /\ pc = "done"
    /\ result = ErrBadOutputWriter
    /\ input # <<>>
    /\ multipart


\* the size of the sink of a download can be observed
SizeObserved == sinkCap.stat = "ok" \/ sinkCap.seek = "ok"

\* C13: a download into a sink whose size can be observed, by Stat or by
\* a seek to the end, and is not zero returns ErrBadOutputWriter before any
\* request is sent; a sink that offers neither, or whose Stat and seek
\* fail, is accepted and the first request is sent.
C13_SinkMustBeEmpty ==
    pc # "idle" =>
        /\ (SizeObserved /\ Len(sinkCap.initial) # 0) =>
                (pc = "done" /\ result = ErrBadOutputWriter /\ calls = <<>>)
        /\ ~SizeObserved =>
                (Len(calls) >= 1 /\ calls[1].url = QueueURL /\ result # ErrBadOutputWriter)

C13_Witness ==
    /\ pc = "done"
    /\ result = ErrBadOutputWriter
    /\ sinkCap.stat = "fails"
    /\ sinkCap.seek = "ok"
    /\ Len(sinkCap.initial) # 0
    /\ calls = <<>>

\* a sink that holds data but shows no size is written to all the same
C13_WitnessAccepted ==
    /\ pc = "done"
    /\ sinkCap.stat = "fails"
    /\ sinkCap.seek = "absent"
    /\ Len(sinkCap.initial) # 0
    /\ Len(calls) = 2
    /\ result = Nil


\* the second request of a download was answered with an error status
ObjectRequestRefused ==
    /\ pc = "done"
    /\ Len(calls) = 2
    /\ rpc = "ret"
    /\ resp.received
    /\ resp.status >= 400

\* C14: when the object store answers the second request of a download
\* with a status of 400 or more, the body it sent is written to the sink
\* of the caller, after what the sink held, and the sink is not cut.
C14_ErrorBodyReachesSink ==
    ObjectRequestRefused => sink = sinkCap.initial \o wire

(***************************************************************************)
(* Claims about body                                                       *)
(***************************************************************************)
\* the backing reader holds the whole window of the body
WindowInSource == Len(bd.src) >= bd.offset + bd.size

\* the body was read to the end of its stream
ReadToEOF == bd.state = "ok" /\ bd.eof

\* C15: a body over a backing reader that holds at least offset+size
\* bytes, read to the end, has returned exactly the bytes from offset to
\* offset+size of the backing reader and never more, whatever follows them
\* there; newBody with a size of 0 returns an error.
C15_BodyWindow ==
    /\ (bd.state # "none" /\ bd.size = 0) => bd.state = "error"
    /\ bd.state = "ok" => Len(bd.got) <= bd.size
    /\ (ReadToEOF /\ WindowInSource) =>
            bd.got = SubSeq(bd.src, bd.offset + 1, bd.offset + bd.size)

C15_Witness ==
    /\ ReadToEOF
    /\ bd.resets = 0
    /\ bd.offset = 1
    /\ bd.size = 1
    /\ Len(bd.src) = 3
    /\ bd.got = <<bd.src[2]>>

\* C16: after Reset, called once or several times after any number of
\* bytes were read, reading the body to the end returns the same bytes as
\* reading a new body to the end.
C16_ResetRestarts ==
    (ReadToEOF /\ bd.resets >= 1) => bd.got = BodyBytes(bd.src, bd.offset, bd.size)

C16_WitnessTwice ==
    /\ ReadToEOF
    /\ bd.resets = 2
    /\ bd.readAtReset = 0
    /\ bd.offset = 1
    /\ bd.size = 2
    /\ bd.got = <<0, 1>>
    /\ bd.src = <<1, 0, 1>>

\* here the body is reset after a part of it was read
C16_Witness ==
    /\ ReadToEOF
    /\ bd.resets = 1
    /\ bd.readAtReset = 1
    /\ bd.size = 2
    /\ Len(bd.got) = 2

(***************************************************************************)
(* Claims about the sizes of parts                                         *)
(***************************************************************************)
\* C17: after multiPartUpload succeeds there are as many parts as part
\* sizes are needed to cover the transfer size; every part but the last
\* has exactly the part size, chunkSize * chunksInPart, and the last has
\* what remains, at least one byte and at most the part size.
C17_PartSizes ==
    PreparedMulti =>
        LET partSize == chunkSize * chunksInPart
            n == Len(u.Parts)
        IN  /\ n = CeilDiv(u.TransferSize, partSize)
            /\ \A i \in 1..(n - 1) : u.Parts[i].Size = partSize
            /\ n >= 1 => /\ u.Parts[n].Size = u.TransferSize - (n - 1) * partSize
                         /\ u.Parts[n].Size >= 1
                         /\ u.Parts[n].Size <= partSize



\* multiPartUpload was called with sizes below the minimums
SizesTooSmall ==
    /\ pc = "prepare" /\ multipart
    /\ \/ chunkSize * chunksInPart < MinPartSize
       \/ chunkSize < MinChunkSize
       \/ (chunkSize * chunksInPart) % chunkSize # 0

\* C18: multiPartUpload called with a part size below the minimum of a
\* part, or a chunk size below the minimum of a chunk, or a part size that
\* is no multiple of the chunk size, goes no further than its checks and
\* returns an error and the zero upload.
C18_SizesValidated ==
    SizesTooSmall =>
        /\ ppc \in {"multi", "ret"}
        /\ ppc = "ret" => (perr # Nil /\ u = NoUpload)

(***************************************************************************)
(* Claims about the sizes of a Client                                      *)
(***************************************************************************)
\* the sizes SetInternalSizes was last called with break a rule
SizesRefusable ==
    \/ setCall.partSize < MinPartSize
    \/ setCall.chunkSize < MinChunkSize
    \/ setCall.partSize % setCall.chunkSize # 0

\* C19: whatever calls of SetInternalSizes were made on a Client made by
\* New, its chunk size is at least the minimum of a chunk and its part
\* size at least the minimum of a part and a multiple of the chunk size; a
\* call that breaks one of these returns an error and changes no size; a
\* call that is accepted makes GetInternalSizes return its arguments.
C19_SizesKeptValid ==
    /\ GetInternalSizes(sizes)[1] >= MinChunkSize
    /\ GetInternalSizes(sizes)[2] >= MinPartSize
    /\ GetInternalSizes(sizes)[2] % GetInternalSizes(sizes)[1] = 0
    /\ setCall.made =>
        IF SizesRefusable
        THEN setCall.err # Nil /\ sizes = setCall.before
        ELSE /\ setCall.err = Nil
             /\ GetInternalSizes(sizes) = <<setCall.chunkSize, setCall.partSize>>

C19_Witness ==
    /\ setCall.made
    /\ setCall.err # Nil
    /\ setCall.chunkSize = 3
    /\ setCall.partSize = 7
    /\ setCall.before = [chunkSize |-> 3, multipartPartChunkCount |-> 2]
    /\ GetInternalSizes(sizes) = <<3, 6>>


(***************************************************************************)
(* Claims about the redirect-capture response                              *)
(***************************************************************************)
\* a blob download ended after a response to its redirect-capture request
BlobRedirectAnswered ==
    /\ DownloadDone
    /\ redir.status # 0
    /\ StorageDispatch(redir.storageType) = "blob"

C20_WitnessBadRedirect ==
    /\ BlobRedirectAnswered
    /\ redir.err = Nil /\ redir.status = 302 /\ redir.location = ""
    /\ result = ErrBadRedirect /\ Len(calls) = 1

\* a 404 with a Location, answered by the wrapped error of the run
C20_WitnessRunError ==
    /\ BlobRedirectAnswered
    /\ redir.status = 404 /\ redir.location = "https://store/object"
    /\ result = newError(redir.err, "running redirect request")
    /\ result # ErrExpectedRedirect /\ Len(calls) = 1


(***************************************************************************)
(* Claims about the second GET of a blob download                          *)
(***************************************************************************)
\* a blob download ended after a response to its second GET, the one
\* against Location
ObjectRequestAnswered ==
    /\ DownloadDone
    /\ Len(calls) = 2 /\ calls[2].verify
    /\ resp.received

\* C21: when the response to the second GET of a blob download has a 3xx
\* status, the download returns ErrUnexpectedRedirect.
C21_SecondRedirectRefused ==
    (ObjectRequestAnswered /\ IsRedirect(resp.status)) =>
        result = ErrUnexpectedRedirect


(***************************************************************************)
(* Claims about the sniff of the content type                              *)
(***************************************************************************)
\* Upload was called with an empty input and an empty output whose seeks
\* succeed, and has made the sniff read
SniffedEmptyInput ==
    /\ pc # "idle" /\ out0.seek = "ok" /\ out0.held = <<>>
    /\ input = <<>>
    /\ Len(inputOps) >= 1 /\ inputOps[1] = "read"

\* C22: Upload of a zero-length input passes the sniff of the content type:
\* the end of stream returned by the sniff read is no error, and Upload
\* goes on to the preparation.
C22_EmptyInputSniffed ==
    SniffedEmptyInput =>
        /\ result # newError(Foreign("EOF"), "reading 512 bytes to determine mime type")
        /\ pc # "done" \/ Len(inputOps) >= 2


(***************************************************************************)
(* Claims about the completion of an upload                                *)
(***************************************************************************)
\* Upload was given an empty output, the preparation succeeded and
\* createArtifact has answered with its descriptors
UploadCreated == pc = "up-put" /\ idx = 1 /\ puts = <<>> /\ out0.held = <<>>

\* a request of the loop could not be made, or its run returned an error
PutRefused ==
    /\ pc = "done" /\ result # Nil
    /\ result[1] \in {"creating request", "creating body", "reading bytes for upload"}

\* Upload has returned after exactly one completeArtifact call that carried
\* one ETag for each descriptor
UploadCompleted ==
    /\ pc = "done"
    /\ Len(queueCalls) = 2
    /\ queueCalls[2].op = "completeArtifact"
    /\ Len(queueCalls[2].etags) = requests.n
    /\ result \in {Nil, newError(Foreign("queue"), "completing artifact upload")}

\* C23: when the staging stream is empty, the preparation succeeds,
\* createArtifact returns N descriptors and every PUT succeeds, Upload
\* eventually makes exactly one completeArtifact call carrying N ETags and
\* returns the result of that call.
C23_UploadCompletes == UploadCreated ~> (UploadCompleted \/ PutRefused)


(***************************************************************************)
(* Claims about byteCountingWriter                                         *)
(***************************************************************************)
\* no goroutine is inside Write
WritersIdle == \A w \in Writers : writer.at[w] = "idle"

\* C24: Write returns (len(p), nil) and adds len(p) to the counter
\* atomically: after any interleaving of the calls of concurrent writers
\* the counter is the sum of the lengths of all the slices written.
C24_NoLostUpdate ==
    /\ \A w \in Writers : writer.ret[w].err = Nil
    /\ WritersIdle => writer.count = writer.written

(***************************************************************************)
(* Claims about the bodies of the PUT requests                             *)
(***************************************************************************)
\* body is the bytes of the staging stream from start to start + size
IsStagingRange(body, start, size) ==
    /\ Len(body) = size
    /\ start + size <= Len(staging)
    /\ \A j \in 1..size : body[j] = staging[start + j]

RECURSIVE PutBodies(_)
PutBodies(k) == IF k = 0 THEN <<>> ELSE PutBodies(k - 1) \o puts[k].body

\* Upload of a multipart plan has returned without an error
MultipartUploaded ==
    /\ pc = "done" /\ result = Nil
    /\ Len(queueCalls) = 2
    /\ ~u.PartsNil

\* C25: the body of the i-th PUT of an upload is the bytes of the staging
\* stream from parts[i].start to parts[i].start + parts[i].size for a
\* multipart plan and from 0 to the transfer size for a single-part plan;
\* for a multipart plan the bodies of all the PUT requests, in order, make
\* up the whole staging stream.
C25_PutBodies ==
    /\ \A k \in 1..Len(puts) :
            IF u.PartsNil
            THEN IsStagingRange(puts[k].body, 0, u.TransferSize)
            ELSE IsStagingRange(puts[k].body, u.Parts[puts[k].idx].Start,
                                u.Parts[puts[k].idx].Size)
    /\ MultipartUploaded => PutBodies(Len(puts)) = staging

(***************************************************************************)
(* Claims about the summary of a run                                       *)
(***************************************************************************)
\* run has returned after its copy loop went through the whole response
CopyCompleted == Returned /\ site \in {"ok", "corrupt", "verify-parse"}

\* C26: whenever the copy loop of run completes, the summary returned has
\* ResponseLength equal to the number of bytes received on the wire, before
\* decoding, and ResponseSha256 equal to the hex SHA-256 of those bytes,
\* also when the verification then fails with ErrCorrupt.
C26_ResponseMeasured ==
    CopyCompleted =>
        /\ cs.ResponseLength = Len(wire)
        /\ cs.ResponseSha256 = EncodeToString(Sha256(wire))

\* C26 witness: a gzip response of some bytes, found corrupt
C26_Witness ==
    /\ CopyCompleted
    /\ site = "corrupt" /\ err = ErrCorrupt /\ retryable
    /\ IsGzip(enc) /\ Len(wire) = 3
    /\ cs.ResponseLength = 3
    /\ cs.ResponseSha256 = EncodeToString(Sha256(wire))

\* a plain response copied without verification
C26_WitnessOk ==
    /\ CopyCompleted
    /\ site = "ok" /\ err = Nil /\ ~rarg.verify
    /\ Len(wire) = 2 /\ cs.ResponseLength = 2


\* run was given a request body, and the request was sent and answered
BodySent == Returned /\ rarg.hasBody /\ resp.received

\* C27: when run is given a request body and the request is sent, the
\* summary returned has RequestLength equal to the number of bytes read
\* from the body and RequestSha256 equal to the hex SHA-256 of those bytes.
C27_RequestMeasured ==
    BodySent =>
        /\ cs.RequestLength = count
        /\ cs.RequestSha256 = EncodeToString(Sha256(Prefix(rarg.body, count)))


\* run has returned because the body of a response with a status below 400
\* and a supported encoding could not be read, decoded, or written
BodyTransferFailed ==
    /\ Returned
    /\ resp.received /\ resp.status < 400
    /\ SupportedEncoding(enc)
    /\ site \in {"gzip-header", "copy"}

\* C28: whenever reading or decoding the body of a response with a status
\* below 400 and a supported encoding fails, or writing it to the sink
\* fails, a body that is not gzip under Content-Encoding gzip included, run
\* returns an error with retryable=true.
C28_TransferErrorsRetryable ==
    BodyTransferFailed => (err # Nil /\ retryable)

\* run has returned after it looked at the Content-Encoding of a response
EncodingClassified ==
    /\ Returned
    /\ site \in {"encoding", "gzip-header", "copy", "ok", "corrupt", "verify-parse"}

\* the encodings of the model in lower case
ToLower(e) == IF e = "GZIP" THEN "gzip" ELSE e

\* C29: run classifies the Content-Encoding of the response after trimming
\* white space and lowercasing it: empty and identity leave the body as it
\* is, gzip in any letter case puts a gzip decoder on the body, and every
\* other value returns an error with retryable=false before a byte is
\* written to the sink.
C29_EncodingClassified ==
    EncodingClassified =>
        LET e == ToLower(TrimSpace(enc))
        IN  /\ e \in {"", "identity", "gzip"} => site # "encoding"
            /\ e \notin {"", "identity", "gzip"} =>
                    (site = "encoding" /\ err # Nil /\ ~retryable /\ sink = <<>>)
            /\ (site = "ok" /\ rarg.sinkTo = "out") =>
                    sink = IF e = "gzip" THEN GzPayload(wire) ELSE wire

\* run was called with request headers whose Content-Length is no integer
MalformedContentLength == Returned /\ rarg.cl.kind = "junk"

\* C30: when the request headers hold a Content-Length that does not parse
\* as a 64-bit integer, run returns an error with retryable=false and the
\* HTTP request is never sent: no response exists and no byte of the
\* request body was read.
C30_MalformedContentLength ==
    MalformedContentLength =>
        /\ err # Nil /\ ~retryable
        /\ site \in {"newrequest", "content-length"}
        /\ ~resp.received /\ count = 0
        /\ closed = "none"

\* C30 witness: a request with a body and a Content-Length that is no number
C30_Witness ==
    /\ MalformedContentLength
    /\ rarg.hasBody /\ rarg.body # <<>>
    /\ site = "content-length"
    /\ err = newError(Foreign("strconv.ParseInt"), "parsing content-length")
    /\ ~retryable /\ ~resp.received /\ count = 0


(***************************************************************************)
(* Claims about the two passes of multiPartUpload                          *)
(***************************************************************************)
\* multiPartUpload has returned after hashFileParts read the staging stream
\* to its end
SecondPassDone ==
    /\ ppc = "ret"
    /\ hf # NoHash
    /\ hf.pos = Len(staging)

\* the bytes read in the second pass do not hash to the transfer hash that
\* the first pass computed
StagingChanged == Sha256(staging) # SinglePartPlan(input, gz).TransferSha256

\* C31: when the bytes read back from the staging stream in the second
\* pass of multiPartUpload hash to another value than the transfer hash of
\* the first pass, multiPartUpload returns an error and no upload.
C31_ChangedStagingRefused ==
    (SecondPassDone /\ StagingChanged) =>
        /\ perr = Foreign("file changed while determining part information")
        /\ u = NoUpload

\* C31 witness: a staging stream of two parts changed between the passes
C31_Witness ==
    /\ SecondPassDone /\ StagingChanged
    /\ hf.totalParts = 2
    /\ perr # Nil /\ u = NoUpload


(***************************************************************************)
(* Claims about the determinism of the preparation                         *)
(***************************************************************************)
\* both calls were made, with gzip, over the same input bytes
SameInputTwice ==
    /\ \A k \in Runs : runs[k].made /\ runs[k].gzip
    /\ runs[1].input = runs[2].input

PreparationReturned == pc \in {"up-prepare", "up-put", "up-run", "done", "panic"} /\ ppc = "ret"

\* no step reads or seeks the input stream
InputUntouched == inputOps' = inputOps

\* C33: once the preparation has returned, Upload does not read or seek the
\* input stream of its caller again: createArtifact, the PUT requests and
\* completeArtifact read the staging stream only.
C33_InputLeftAlone == [][PreparationReturned => InputUntouched]_vars

\* C33 witness: an upload of two requests completed, the input read by the
\* sniff and by the preparation only
C33_Witness ==
    /\ pc = "done" /\ result = Nil
    /\ Len(puts) = 2 /\ Len(queueCalls) = 2
    /\ inputOps = <<"read", "seek", "read">>


(***************************************************************************)
(* Claims about the formatting of errors                                   *)
(***************************************************************************)
\* the nodes the walk lists: all of them up to the first that is neither
\* internal nor a URL error
RECURSIVE Walked(_)
Walked(c) ==
    IF c = <<>> THEN <<>>
    ELSE IF c[1].kind \in {"internal", "url"} THEN <<c[1]>> \o Walked(Tail(c))
    ELSE <<c[1]>>

\* node k of the walk has its own line, numbered k, in the form of its kind
ListedAt(k) ==
    LET v == Walked(report.chain)[k]
        l == report.lines[k]
    IN  /\ l.n = k
        /\ l.type = v.kind
        /\ l.text = <<v.text>>
        /\ l.form = CASE v.kind = "internal" -> "internal"
                      [] v.kind = "url" -> "fail"
                      [] OTHER -> "error"

\* C34: formatting an error chain lists its nodes outermost
\* first, one line for each node, numbered from 1 on: an internal node is
\* followed by its cause, a URL error is printed with its operation and URL
\* and followed by its inner error, and the walk ends after the first node
\* that is neither, or at a nil cause; so for every finite chain.
C34_ChainListed ==
    report.made =>
        /\ ~report.panicked
        /\ Len(report.lines) = Len(Walked(report.chain))
        /\ \A k \in 1..Len(report.lines) : ListedAt(k)

\* every URL error of the chain has an inner error, and that is no URL error
URLErrorsWrapOthers ==
    \A k \in 1..Len(report.chain) :
        report.chain[k].kind = "url" =>
            (k < Len(report.chain) /\ report.chain[k + 1].kind # "url")

\* the first URL error of the chain that wraps a URL error, 0 if none does
RECURSIVE FirstNested(_, _)
FirstNested(c, k) ==
    IF k >= Len(c) \/ c[k].kind = "other" THEN 0
    ELSE IF c[k].kind = "url" /\ c[k + 1].kind = "url" THEN k
    ELSE FirstNested(c, k + 1)

\* What does hold: formatting an error chain in which every URL error has an inner
\* error that is not itself a URL error lists the nodes outermost first,
\* one line for each node, numbered from 1 on, an internal node by its
\* message, a URL error by its operation and URL, and ends after the first
\* node that is neither or at a nil cause. A URL error inside a URL error
\* is not walked: it gets one line made by its Error(), and the walk ends.
C34_ListedWhenWrapped ==
    /\ (report.made /\ URLErrorsWrapOthers) =>
            /\ ~report.panicked
            /\ Len(report.lines) = Len(Walked(report.chain))
            /\ \A k \in 1..Len(report.lines) : ListedAt(k)
    /\ (report.made /\ FirstNested(report.chain, 1) # 0) =>
            LET k == FirstNested(report.chain, 1)
            IN  /\ ~report.panicked
                /\ Len(report.lines) = k + 1
                /\ \A j \in 1..k : ListedAt(j)
                /\ report.lines[k + 1].n = k + 1
                /\ report.lines[k + 1].form = "error"

\* an internal error over a URL error over a plain error
C34_ListedChain ==
    /\ report.made /\ URLErrorsWrapOthers
    /\ Len(report.chain) = 3
    /\ report.chain[1].kind = "internal"
    /\ report.chain[2].kind = "url"
    /\ report.chain[3].kind = "other"
    /\ Len(report.lines) = 3 /\ report.lines[3].n = 3

\* a URL error over a URL error
C34_NestedChain ==
    /\ report.made
    /\ FirstNested(report.chain, 1) = 1
    /\ Len(report.chain) = 3 /\ Len(report.lines) = 2


\* C35: in every return of run retryable = true comes with a non-nil error,
\* and a nil error comes with retryable = false only; a failing deferred
\* close of the response body does not change that.
C35_RetryableHasError ==
    Returned =>
        /\ (retryable => err # Nil)
        /\ (err = Nil => ~retryable)
        /\ (closed = "failed" => err # Nil)

\* C35 witness: a retryable return whose deferred close failed as well
C35_Witness ==
    /\ Returned
    /\ retryable /\ err # Nil
    /\ closed = "failed"

\* a return statement with a nil error, which the failing close replaced
C35_WitnessCloseOnly ==
    /\ Returned
    /\ ~retryable
    /\ closed = "failed"
    /\ err = Foreign("close")

\* a return of a nil error
C35_WitnessNil ==
    /\ Returned
    /\ ~retryable /\ err = Nil
    /\ closed = "ok"


\* run was called with verify = true and every length and digest check of
\* the verify phase passed
AllChecksPassed == VerifyPhaseDone /\ ~Disagrees /\ site = "ok"

\* C36: the Verified field of the call summary that run returns is true
\* exactly when run was called with verify = true and every length and
\* digest check passed; it is false for verify = false and for every
\* return of an error.
C36_VerifiedReported ==
    Returned =>
        /\ cs.Verified <=> AllChecksPassed
        /\ ~rarg.verify => ~cs.Verified
        /\ err # Nil => ~cs.Verified

\* no run of the code returns a summary marked as verified
C36_NeverVerified == ~cs.Verified


\* createArtifact answered a multipart plan of P parts with N descriptors
DescriptorsAnswered(n, p) ==
    /\ ~u.PartsNil /\ perr = Nil
    /\ Len(queueCalls) >= 1 /\ idx >= 1
    /\ requests.n = n /\ Len(u.Parts) = p

\* C37: whatever createArtifact answers, Upload never reads parts[i] with
\* i outside the parts of the plan: a multipart plan of P parts answered by
\* N # P descriptors ends in a returned error, never in an out-of-range
\* access.
C37_PartsInRange ==
    /\ pc # "panic"
    /\ \A n \in 0..MaxRequests, p \in 0..MaxRequests :
        (pc = "done" /\ DescriptorsAnswered(n, p) /\ n # p) => result # Nil

\* more descriptors than parts: the loop reads parts[P]
C37_OutOfRange ==
    ~(pc = "panic" /\ \E p \in 0..MaxRequests : DescriptorsAnswered(p + 1, p))

\* fewer descriptors than parts: Upload returns without an error
C37_TooFewUnnoticed ==
    ~(/\ pc = "done" /\ result = Nil
      /\ \E n, p \in 0..MaxRequests : n < p /\ DescriptorsAnswered(n, p))


\* C38: the second pass of multiPartUpload assigns bytes to parts by byte
\* count, not by number of reads: however the staging stream cuts its reads
\* (each non-empty and at most chunkSize bytes), every part but the last
\* has exactly chunkSize * chunksInPart bytes, each recorded start is the
\* offset of the first byte the part was given, and no part beyond the
\* allocated ceil(transferSize / partSize) parts is written.
C38_PartsByByteCount ==
    /\ ppc # "panic"
    /\ PreparedMulti =>
        LET partSize == chunkSize * chunksInPart
        IN  \A i \in 1..Len(u.Parts) :
                /\ i < Len(u.Parts) => u.Parts[i].Size = partSize
                /\ u.Parts[i].Start = SumSizes(u.Parts, i - 1)

\* a short read made a part close before it was full
C38_ShortPart ==
    ~(/\ PreparedMulti /\ hf.short
      /\ \E i \in 1..(Len(u.Parts) - 1) : u.Parts[i].Size < chunkSize * chunksInPart)

\* short reads made the loop write a part beyond those allocated
C38_WriteBeyondParts == ~(ppc = "panic" /\ hf.short /\ hf.currentPart >= hf.totalParts)

\* with reads that fill the chunk buffer the parts are as claimed
C38_FullReads ==
    /\ (ppc = "panic" => hf.short)
    /\ (PreparedMulti /\ ~hf.short) =>
        \A i \in 1..Len(u.Parts) :
            /\ i < Len(u.Parts) => u.Parts[i].Size = chunkSize * chunksInPart
            /\ u.Parts[i].Start = SumSizes(u.Parts, i - 1)


\* a blob download has returned an error before it sent the second GET
BlobFailedEarly ==
    /\ pc = "done" /\ result # Nil
    /\ \/ Len(calls) = 0
       \/ /\ Len(calls) = 1 /\ calls[1].url = QueueURL
          /\ StorageDispatch(redir.storageType) = "blob"

C39_WitnessNonEmpty == BlobFailedEarly /\ result = ErrBadOutputWriter /\ sink # <<>>

C39_WitnessRunFailed ==
    BlobFailedEarly /\ result = newError(redir.err, "running redirect request") /\ redir.body # <<>>

C39_WitnessBadRedirect == BlobFailedEarly /\ result = ErrBadRedirect

C39_WitnessLocation ==
    BlobFailedEarly /\ result = newError(Foreign("url.Parse"), "parsing Location header value")

C39_WitnessHTTPS == BlobFailedEarly /\ result = ErrHTTPS /\ redir.body # <<>>

=============================================================================
